---- MODULE Spec2Model ----
(***************************************************************************)
(* Timing behaviour of the React demo components of this repository: the  *)
(* debouncers (useDebounce, DelayedActions, useWindowSize), the throttler  *)
(* (useThrottle), DebouncedButton and the debounce-then-throttle pipeline  *)
(* of CustomHookExample.                                                   *)
(*                                                                         *)
(* Time is Date.now() in milliseconds.  The host event loop is single      *)
(* threaded: every event handler and timer callback runs to completion,    *)
(* together with the re-render and the effects it causes, as one step.     *)
(* A timeout never fires before its delay has elapsed; it may fire late.   *)
(***************************************************************************)
EXTENDS Integers, FiniteSets, Sequences, TLC

VARIABLES
  now,                 \* Date.now()
  activeSection,       \* App: which example page is rendered
  timers,              \* host: the pending timeouts
  nextId,              \* host: the id the next setTimeout returns
  searchTerm,          \* DebouncedSearch: useState('')
  debouncedSearchTerm, \* DebouncedSearch: useDebounce's debouncedValue
  searchHandler,       \* DebouncedSearch: useDebounce's `handler` of the last effect run
  daInput,             \* DelayedActions: input
  daDebouncedInput,    \* DelayedActions: debouncedInput
  daTimer,             \* DelayedActions: `timer` of the last effect run
  innerWidth,          \* window.innerWidth
  windowSize,          \* useWindowSize: windowSize (its width)
  timeoutId,           \* useWindowSize: timeoutId of the mounted effect
  scrollCount,         \* ThrottledScroll: scrollCount
  throttledCount,      \* ThrottledScroll: throttledCount
  scrollLastRun,       \* ThrottledScroll: lastRun.current of its useThrottle
  resizeCount,         \* ThrottledResize: resizeCount
  shownWidth,          \* ThrottledResize: windowSize (its width)
  resizeLastRun,       \* ThrottledResize: lastRun.current of its useThrottle
  hist,                \* observation only: per debouncer, what the claims speak about
  pendingAtUnmount,    \* observation only: the debouncers the last navigation tore down with a timeout pending
  ranUnmounted,        \* observation only: a timer callback ran for a component that was unmounted
  thr,                 \* observation only: per throttler, its calls and executions
  clickCount,          \* DebouncedButton: clickCount
  debouncedCount,      \* DebouncedButton: debouncedCount
  btn,                 \* observation only: the bursts of clicks of DebouncedButton
  input,               \* CustomHookExample: input
  debouncedInput,      \* CustomHookExample: useDebounce's debouncedValue
  inputHandler,        \* CustomHookExample: useDebounce's `handler` of the last effect run
  apiCalls,            \* CustomHookExample: apiCalls
  apiLastRun,          \* CustomHookExample: lastRun.current of its useThrottle
  apiLog,              \* console: the input the last 'API call made for:' line names
  pipe,                \* observation only: the requests CustomHookExample dropped
  intervals,           \* host: the active intervals
  icCount,             \* IntervalCounter: count
  icRunning,           \* IntervalCounter: isRunning
  icInterval,          \* IntervalCounter: `interval` of the last effect run
  messages,            \* MultipleTimers: messages
  isActive,            \* MultipleTimers: isActive
  mtTimers,            \* MultipleTimers: timer1, timer2, timer3 of the last effect run
  mtRun,               \* observation only: the messages appended since isActive last changed
  twCount,             \* TimerWithRef: count
  timerRef,            \* TimerWithRef: timerRef.current
  tw,                  \* observation only: the Start / Stop / Reset calls of TimerWithRef
  teardown,            \* observation only: the handles the cleanups that ran had captured
  cfg,                 \* a hook instantiated with a delay of the caller's choice
  counter,             \* RealTimeCounter: counter
  isRunning,           \* RealTimeCounter: isRunning
  rtInterval,          \* RealTimeCounter: interval
  isPolling,           \* ConditionalPolling: isPolling
  cpData,              \* ConditionalPolling: data.length
  threshold,           \* ConditionalPolling: threshold
  cpInterval,          \* ConditionalPolling: intervalId of the last effect run
  todos,               \* TodoList: state.todos
  cart,                \* ShoppingCart: state.items
  cartLast,            \* observation only: the last action dispatched to cartReducer
  localStorage,        \* window.localStorage: the item under each key
  storedValue,         \* useLocalStorage: storedValue of the instance of each key
  ls,                  \* observation only: the last setValue of each key, whether the
                       \* page was refreshed since, the setItem calls that threw
  boundaries,          \* ErrorBoundary of each example: this.state and what it shows
  shouldThrow,         \* ErrorThrowerWithReset: shouldThrow
  eb                   \* observation only: per boundary, the renders of its child, the
                       \* errors caught, the onError calls and the resets

vars == <<now, activeSection, timers, nextId,
          searchTerm, debouncedSearchTerm, searchHandler,
          daInput, daDebouncedInput, daTimer,
          innerWidth, windowSize, timeoutId,
          scrollCount, throttledCount, scrollLastRun,
          resizeCount, shownWidth, resizeLastRun,
          hist, pendingAtUnmount, ranUnmounted, thr,
          clickCount, debouncedCount, btn,
          input, debouncedInput, inputHandler, apiCalls, apiLastRun, apiLog, pipe,
          intervals, icCount, icRunning, icInterval, messages, isActive, mtTimers, mtRun,
          twCount, timerRef, tw, teardown, cfg,
          counter, isRunning, rtInterval, isPolling, cpData, threshold, cpInterval,
          todos, cart, cartLast,
          localStorage, storedValue, ls,
          boundaries, shouldThrow, eb>>

hostVars == <<timers, nextId>>
searchVars == <<searchTerm, debouncedSearchTerm, searchHandler>>
delayedVars == <<daInput, daDebouncedInput, daTimer>>
winVars == <<windowSize, timeoutId>>
obsVars == <<hist, pendingAtUnmount, ranUnmounted>>
scrollVars == <<scrollCount, throttledCount, scrollLastRun>>
resizeVars == <<resizeCount, shownWidth, resizeLastRun>>

\* What the debouncers own, and what the throttlers own.
debounceVars == <<searchVars, delayedVars, winVars, obsVars>>
throttleVars == <<scrollVars, resizeVars, thr>>
buttonVars == <<clickCount, debouncedCount, btn>>
pipeVars == <<input, debouncedInput, inputHandler, apiCalls, apiLastRun, apiLog, pipe>>
icVars == <<icCount, icRunning, icInterval>>
mtVars == <<messages, isActive, mtTimers, mtRun>>
twVars == <<twCount, timerRef, tw>>
\* What the components of the Timeout & Intervals page own besides DelayedActions.
timerPageVars == <<icVars, mtVars, twVars>>
\* What the actions of the debouncers, throttlers, button and pipeline leave alone.
\* What only the specifications of the hooks with a free delay, of the polling
\* page and of the reducers change.
rtVars == <<counter, isRunning, rtInterval>>
cpVars == <<isPolling, cpData, threshold, cpInterval>>
pollVars == <<rtVars, cpVars>>
reducerVars == <<todos, cart, cartLast>>
storageVars == <<localStorage, storedValue, ls>>
\* What only the specifications of the storage hook and of the error boundary change.
boundaryVars == <<boundaries, shouldThrow, eb>>
exampleVars == <<storageVars, boundaryVars>>
farVars == <<cfg, pollVars, reducerVars, exampleVars>>
laterVars == <<intervals, timerPageVars, farVars>>

----------------------------------------------------------------------------
(* Bounds of the model *)

\* The step of the clock, in milliseconds.
TickMs == 100
\* The clock stops advancing once it has reached the horizon of the
\* specification: MaxTime for the debouncers, ThrottleHorizon for the throttlers.
MaxTime == 1500
ThrottleHorizon == 2000
ButtonHorizon == 2500
PipelineHorizon == 2200
\* No throttled function is called more often than this per mount.
MaxCalls == 3
\* The button is not clicked more often than this per mount.
MaxClicks == 3
\* No timeout is created once this many have been.
MaxTimers == 5
\* stopTimer of TimerWithRef is not called more often than this per mount.
MaxStops == 2
\* No cleanup is run a second time more often than this.
MaxReruns == 1
\* The horizon of the hooks with a free delay.
ConfigHorizon == 500
\* The horizon of IntervalCounter and MultipleTimers and the handles the host
\* gives out there.
TimersHorizon == 3000
TimerStepMs == 500
MaxPageIds == 8
\* The horizon of the todo list and the todos it is followed to.
TodoHorizon == 300
MaxTodos == 3
\* The times Try Again of one boundary is followed.
MaxResets == 2
\* The setItem calls that are let throw.
MaxThrows == 1
\* The quantity an item of the cart is followed to.
MaxQuantity == 3
\* The horizon of RealTimeCounter and the value its counter is followed to.
RealTimeHorizon == 400
MaxCounter == 6
\* The horizon of the polling page, the handles the host gives out there and
\* the thresholds the user chooses.
PollHorizon == 2700
MaxPollIds == 6
MaxThreshold == 2
\* The horizon of the hook instances side by side, and the calls of each
\* throttled function per mount there.
InstancesHorizon == 600
MaxInstanceCalls == 1

(* Program constants *)

SearchDelay == 500
DelayedDelay == 500
ResizeDelay == 100
ScrollThrottle == 1000
ResizeThrottle == 500
ButtonDelay == 2000
InputDelay == 300
ApiThrottle == 1000
CounterPeriod == 1000
TimerRefPeriod == 1000
MultipleDelays == <<1000, 2000, 3000>>
TimerMessages == <<"Timer 1: 1 second passed", "Timer 2: 2 seconds passed",
                   "Timer 3: 3 seconds passed">>
PollPeriod == 1000
FetchDelay == 300
DefaultThreshold == 5
DefaultInterval == 1000
\* The options of the interval selector of RealTimeCounter.
IntervalOptions == {100, 500, 1000, 2000}
\* The value of a state whose updater returned nothing (undefined).
Undefined == -1

\* What a text input can hold; '' is the initial state of every input.
Values == {"", "a", "b"}
\* The widths the window can take.
Widths == {800, 1024}
\* The delays a caller can pass to useDebounce and useThrottle.
Delays == {-100, 0, 200}

\* No timeout id: the host's ids are positive.
NoHandle == 0
\* A callback that captures no value.
NoCapture == "none"
\* The size state of a component that is not mounted.
NoWidth == "none"

Sections == {"useState", "customHooks", "timeoutInterval", "debounceThrottle"}

----------------------------------------------------------------------------
(* The host timer facility *)

\* setTimeout(callback, delay): the table with the new timeout, whose callback
\* closes over val.
SetTimeout(T, id, owner, delay, val) ==
  T \cup {[id |-> id, owner |-> owner, due |-> now + delay, val |-> val]}

\* clearTimeout(id): a no-op for an id that is not pending.
ClearTimeout(T, id) == {t \in T : t.id # id}

Pending(owner) == {t \in timers : t.owner = owner}

Due(owner) == {t \in Pending(owner) : t.due <= now}

CanSchedule == nextId <= MaxTimers

\* A timeout of this delay set now is due while the clock still advances.
InHorizon(delay, horizon) == now + delay <= horizon

\* Time passes, up to the horizon.
Tick(horizon) ==
  /\ now < horizon
  /\ now' = now + TickMs
  /\ UNCHANGED <<laterVars, teardown>>
  /\ UNCHANGED <<activeSection, innerWidth, hostVars, debounceVars,
                 throttleVars, buttonVars, pipeVars>>

TickD == Tick(MaxTime)

----------------------------------------------------------------------------
(* Observation of a debouncer: the time of its last input change, the      *)
(* number of output changes in the current burst of input changes and      *)
(* since the last input change, the time of the last output change, the    *)
(* output at the moment of the last input change.                          *)

Debouncers == {"search", "delayed", "winsize"}

DelayOf(d) ==
  CASE d = "search" -> SearchDelay
    [] d = "delayed" -> DelayedDelay
    [] d = "winsize" -> ResizeDelay

SectionOf(d) ==
  CASE d = "search" -> "debounceThrottle"
    [] d = "delayed" -> "timeoutInterval"
    [] d = "winsize" -> "customHooks"

NoHist == [changed |-> FALSE, changedAt |-> 0, burstLen |-> 0, burstOut |-> 0,
           sinceOut |-> 0, outAt |-> 0, outBefore |-> "", replaced |-> FALSE]

\* An input change at time `now`, the output being out: it continues the burst
\* when it comes less than the delay after the previous change.
HistInput(h, d, out) ==
  LET continues == h.changed /\ now - h.changedAt < DelayOf(d)
  IN  [changed |-> TRUE, changedAt |-> now,
       burstLen |-> IF continues THEN h.burstLen + 1 ELSE 1,
       burstOut |-> IF continues THEN h.burstOut ELSE 0,
       sinceOut |-> 0, outAt |-> h.outAt, outBefore |-> out,
       replaced |-> Pending(d) # {}]

\* The timer callback ran and left the output at new instead of old.
HistOutput(h, old, new) ==
  IF new = old THEN h
  ELSE [h EXCEPT !.burstOut = @ + 1, !.sinceOut = @ + 1, !.outAt = now]

----------------------------------------------------------------------------
(* useDebounce(value, delay), as DebouncedSearch uses it *)

\* A cleanup that forgets clearTimeout.
UseDebounceCleanup_NoClear(T, handler) == T

\* A cleanup that clears every timeout there is.
UseDebounceCleanup_All(T, handler) == {}

\* The cleanup the effect returns: clearTimeout(handler).
UseDebounceCleanup(T, handler) == ClearTimeout(T, handler)

\* An effect that schedules nothing.
UseDebounceEffect_NoTimer(T, id, owner, value, delay) == T

\* The effect body: handler = setTimeout(() => setDebouncedValue(value), delay).
UseDebounceEffect(T, id, owner, value, delay) ==
  SetTimeout(T, id, owner, delay, value)

\* What the timeout's callback writes: the value its closure captured.
UseDebounceEmit(t) == t.val

\* onChange of the search input: setSearchTerm, then the effect of useDebounce
\* re-runs because `value` changed: cleanup of the previous run, then the body.
TypeSearch(v) ==
  /\ activeSection = "debounceThrottle"
  /\ v # searchTerm
  /\ CanSchedule
  /\ InHorizon(SearchDelay, MaxTime)
  /\ searchTerm' = v
  /\ timers' = UseDebounceEffect(UseDebounceCleanup(timers, searchHandler),
                                 nextId, "search", v, SearchDelay)
  /\ searchHandler' = nextId
  /\ nextId' = nextId + 1
  /\ hist' = [hist EXCEPT !["search"] = HistInput(@, "search", debouncedSearchTerm)]
  /\ teardown' = [teardown EXCEPT !.owner = "search", !.handle = searchHandler]
  /\ UNCHANGED <<now, activeSection, debouncedSearchTerm, delayedVars,
                 innerWidth, winVars, pendingAtUnmount, ranUnmounted>>
  /\ UNCHANGED laterVars
  /\ UNCHANGED <<throttleVars, buttonVars, pipeVars>>

\* The timeout of useDebounce fires: setDebouncedValue(value).  The state of an
\* unmounted component is gone and the setter does nothing.
FireSearch ==
  \E t \in Due("search") :
    /\ timers' = timers \ {t}
    /\ IF activeSection = "debounceThrottle"
         THEN /\ debouncedSearchTerm' = UseDebounceEmit(t)
              /\ hist' = [hist EXCEPT !["search"] =
                            HistOutput(@, debouncedSearchTerm, UseDebounceEmit(t))]
              /\ UNCHANGED ranUnmounted
         ELSE /\ ranUnmounted' = TRUE
              /\ UNCHANGED <<debouncedSearchTerm, hist>>
    /\ UNCHANGED <<now, activeSection, nextId, searchTerm, searchHandler,
                   delayedVars, innerWidth, winVars, pendingAtUnmount>>
    /\ UNCHANGED <<laterVars, teardown>>
    /\ UNCHANGED <<throttleVars, buttonVars, pipeVars>>

----------------------------------------------------------------------------
(* DelayedActions *)

\* A cleanup that forgets clearTimeout.
DelayedCleanup_NoClear(T, timer) == T

\* The cleanup of the effect: clearTimeout(timer).
DelayedCleanup(T, timer) == ClearTimeout(T, timer)

\* The effect body: timer = setTimeout(() => setDebouncedInput(input), 500).
DelayedEffect(T, id, text) == SetTimeout(T, id, "delayed", DelayedDelay, text)

\* onChange of the input: setInput, then the effect re-runs.
TypeDelayed(v) ==
  /\ activeSection = "timeoutInterval"
  /\ v # daInput
  /\ CanSchedule
  /\ InHorizon(DelayedDelay, MaxTime)
  /\ daInput' = v
  /\ timers' = DelayedEffect(DelayedCleanup(timers, daTimer), nextId, v)
  /\ daTimer' = nextId
  /\ nextId' = nextId + 1
  /\ hist' = [hist EXCEPT !["delayed"] = HistInput(@, "delayed", daDebouncedInput)]
  /\ UNCHANGED <<now, activeSection, daDebouncedInput, searchVars,
                 innerWidth, winVars, pendingAtUnmount, ranUnmounted>>
  /\ UNCHANGED <<laterVars, teardown>>
  /\ UNCHANGED <<throttleVars, buttonVars, pipeVars>>

\* The timeout fires: setDebouncedInput(input).
FireDelayed ==
  \E t \in Due("delayed") :
    /\ timers' = timers \ {t}
    /\ IF activeSection = "timeoutInterval"
         THEN /\ daDebouncedInput' = t.val
              /\ hist' = [hist EXCEPT !["delayed"] =
                            HistOutput(@, daDebouncedInput, t.val)]
              /\ UNCHANGED ranUnmounted
         ELSE /\ ranUnmounted' = TRUE
              /\ UNCHANGED <<daDebouncedInput, hist>>
    /\ UNCHANGED <<now, activeSection, nextId, daInput, daTimer,
                   searchVars, innerWidth, winVars, pendingAtUnmount>>
    /\ UNCHANGED <<laterVars, teardown>>
    /\ UNCHANGED <<throttleVars, buttonVars, pipeVars>>

----------------------------------------------------------------------------
(* useWindowSize *)

\* A handleResize that does not cancel the pending timeout first.
HandleResize_NoClear(T, id, old) == SetTimeout(T, id, "winsize", ResizeDelay, NoCapture)

\* handleResize: clearTimeout(timeoutId); timeoutId = setTimeout(..., 100).
HandleResize(T, id, old) == SetTimeout(ClearTimeout(T, old), id, "winsize", ResizeDelay, NoCapture)

\* A cleanup that only removes the listener.
WindowSizeCleanup_NoClear(T, id) == T

\* The cleanup of the effect: removeEventListener, clearTimeout(timeoutId).
WindowSizeCleanup(T, id) == ClearTimeout(T, id)

\* The window is resized; the listener of useWindowSize is registered while
\* the custom hooks page is shown.
Resize(w) ==
  /\ w # innerWidth
  /\ innerWidth' = w
  /\ IF activeSection = "customHooks"
       THEN /\ CanSchedule
            /\ InHorizon(ResizeDelay, MaxTime)
            /\ timers' = HandleResize(timers, nextId, timeoutId)
            /\ timeoutId' = nextId
            /\ nextId' = nextId + 1
            /\ hist' = [hist EXCEPT !["winsize"].replaced = Pending("winsize") # {}]
            /\ UNCHANGED windowSize
       ELSE UNCHANGED <<timers, nextId, timeoutId, windowSize, hist>>
  /\ UNCHANGED <<now, activeSection, searchVars, delayedVars,
                 pendingAtUnmount, ranUnmounted>>
  /\ UNCHANGED <<laterVars, teardown>>
  /\ UNCHANGED <<throttleVars, buttonVars, pipeVars>>

\* The timeout fires: setWindowSize with the size the window has now.
FireWindowSize ==
  \E t \in Due("winsize") :
    /\ timers' = timers \ {t}
    /\ windowSize' = IF activeSection = "customHooks" THEN innerWidth ELSE windowSize
    /\ ranUnmounted' = (ranUnmounted \/ activeSection # "customHooks")
    /\ UNCHANGED <<now, activeSection, nextId, timeoutId, innerWidth,
                   searchVars, delayedVars, hist, pendingAtUnmount>>
    /\ UNCHANGED <<laterVars, teardown>>
    /\ UNCHANGED <<throttleVars, buttonVars, pipeVars>>

----------------------------------------------------------------------------
(* useThrottle(callback, delay) *)

\* const lastRun = React.useRef(Date.now()): the first render sets the ref to
\* the time of instantiation; later renders keep the ref and its value.
UseThrottleInit == now

\* A guard that lets every call pass.
ThrottleOpen_Always(lastRun, delay) == TRUE

\* A guard that excludes the boundary.
ThrottleOpen_Strict(lastRun, delay) == now - lastRun > delay

\* Date.now() - lastRun.current >= delay
ThrottleOpen(lastRun, delay) == now - lastRun >= delay

\* A throttled function that forgets to record the time of the execution.
ThrottleLastRun_Keep(lastRun, delay) == lastRun

\* lastRun.current after a call of the throttled function: Date.now() when
\* the callback was executed, unchanged when the call was dropped.
ThrottleLastRun(lastRun, delay) ==
  IF ThrottleOpen(lastRun, delay) THEN now ELSE lastRun

(* Observation of a throttler since it was mounted: its calls and         *)
(* executions, the times of the last two executions, the calls inside the  *)
(* window the last execution opened (that execution's call included) and   *)
(* the number of executions before that window opened.                     *)

Throttlers == {"scroll", "resize"}

ThrottleOf(h) == IF h = "scroll" THEN ScrollThrottle ELSE ResizeThrottle

NoCalls == [calls |-> 0, execs |-> 0, lastExecAt |-> -1, prevExecAt |-> -1,
            winCalls |-> 0, winBase |-> 0]

InWindow(c, delay) == c.execs > 0 /\ now < c.lastExecAt + delay

\* A call at time `now`, executed or dropped.
ThrCall(c, delay, executed) ==
  [calls |-> c.calls + 1,
   execs |-> IF executed THEN c.execs + 1 ELSE c.execs,
   lastExecAt |-> IF executed THEN now ELSE c.lastExecAt,
   prevExecAt |-> IF executed THEN c.lastExecAt ELSE c.prevExecAt,
   winCalls |-> IF InWindow(c, delay) THEN c.winCalls + 1
                ELSE IF executed THEN 1 ELSE 0,
   winBase |-> IF InWindow(c, delay) THEN c.winBase ELSE c.execs]

\* A scroll event while ThrottledScroll is mounted: handleScroll counts it and
\* calls the throttled handler, whose callback counts the execution.  The
\* re-render that setScrollCount causes recreates the throttled function (its
\* callback is a new closure) and re-registers the listener; the ref lastRun
\* is the same cell in every render.
Scroll ==
  /\ activeSection = "debounceThrottle"
  /\ thr["scroll"].calls < MaxCalls
  /\ scrollCount' = scrollCount + 1
  /\ throttledCount' = IF ThrottleOpen(scrollLastRun, ScrollThrottle)
                         THEN throttledCount + 1 ELSE throttledCount
  /\ scrollLastRun' = ThrottleLastRun(scrollLastRun, ScrollThrottle)
  /\ thr' = [thr EXCEPT !["scroll"] =
               ThrCall(@, ScrollThrottle, ThrottleOpen(scrollLastRun, ScrollThrottle))]
  /\ UNCHANGED <<laterVars, teardown>>
  /\ UNCHANGED <<now, activeSection, innerWidth, resizeVars, hostVars,
                 debounceVars, buttonVars, pipeVars>>

\* The window is resized; while ThrottledResize is mounted handleResize calls
\* the throttled handler, whose callback stores the size of the window and
\* counts the execution.
ResizeThrottled(w) ==
  /\ w # innerWidth
  /\ innerWidth' = w
  /\ IF activeSection = "debounceThrottle"
       THEN /\ thr["resize"].calls < MaxCalls
            /\ resizeCount' = IF ThrottleOpen(resizeLastRun, ResizeThrottle)
                                THEN resizeCount + 1 ELSE resizeCount
            /\ shownWidth' = IF ThrottleOpen(resizeLastRun, ResizeThrottle)
                               THEN w ELSE shownWidth
            /\ resizeLastRun' = ThrottleLastRun(resizeLastRun, ResizeThrottle)
            /\ thr' = [thr EXCEPT !["resize"] =
                         ThrCall(@, ResizeThrottle,
                                 ThrottleOpen(resizeLastRun, ResizeThrottle))]
       ELSE UNCHANGED <<resizeCount, shownWidth, resizeLastRun, thr>>
  /\ UNCHANGED <<laterVars, teardown>>
  /\ UNCHANGED <<now, activeSection, scrollVars, hostVars, debounceVars,
                 buttonVars, pipeVars>>

\* App: the navigation mounts ThrottledScroll and ThrottledResize with the
\* Debounce & Throttle page and unmounts them with it.
NavigateT(s) ==
  /\ s # activeSection
  /\ activeSection' = s
  /\ scrollCount' = 0
  /\ throttledCount' = 0
  /\ resizeCount' = 0
  /\ shownWidth' = IF s = "debounceThrottle" THEN innerWidth ELSE NoWidth
  /\ scrollLastRun' = IF s = "debounceThrottle" THEN UseThrottleInit ELSE 0
  /\ resizeLastRun' = IF s = "debounceThrottle" THEN UseThrottleInit ELSE 0
  /\ thr' = [h \in Throttlers |-> NoCalls]
  /\ UNCHANGED <<laterVars, teardown>>
  /\ UNCHANGED <<now, innerWidth, hostVars, debounceVars, buttonVars, pipeVars>>

TickT == Tick(ThrottleHorizon)

NextT ==
  \/ TickT
  \/ \E s \in Sections : NavigateT(s)
  \/ Scroll
  \/ \E w \in Widths : ResizeThrottled(w)

----------------------------------------------------------------------------
(* DebouncedButton *)

\* The owner of a timeout whose component instance has been unmounted: its
\* callback calls the state setter of an instance that is gone.
Gone == "gone"

NoClicks == [bursts |-> 0, burstClicks |-> 0, lastClickAt |-> 0]

\* A click at time `now`: it continues the burst when it comes less than the
\* delay after the previous click.
BtnClick(b) ==
  LET continues == b.bursts > 0 /\ now - b.lastClickAt < ButtonDelay
  IN  [bursts |-> IF continues THEN b.bursts ELSE b.bursts + 1,
       burstClicks |-> IF continues THEN b.burstClicks + 1 ELSE 1,
       lastClickAt |-> now]

\* debouncedClick(): a new timeout of 2000 ms.  The function it returns, which
\* would clear that timeout, is dropped by handleClick: nothing is cleared.
DebouncedClick(T, id) == SetTimeout(T, id, "button", ButtonDelay, NoCapture)

\* handleClick: setClickCount(prev => prev + 1); debouncedClick().
Click ==
  /\ activeSection = "debounceThrottle"
  /\ clickCount < MaxClicks
  /\ CanSchedule
  /\ InHorizon(ButtonDelay, ButtonHorizon)
  /\ clickCount' = clickCount + 1
  /\ timers' = DebouncedClick(timers, nextId)
  /\ nextId' = nextId + 1
  /\ btn' = BtnClick(btn)
  /\ UNCHANGED <<laterVars, teardown>>
  /\ UNCHANGED <<now, activeSection, innerWidth, debouncedCount,
                 debounceVars, throttleVars, pipeVars>>

\* A timeout of debouncedClick fires: setDebouncedCount(prev => prev + 1).
FireButton ==
  \E t \in Due("button") :
    /\ timers' = timers \ {t}
    /\ debouncedCount' = debouncedCount + 1
    /\ UNCHANGED <<laterVars, teardown>>
    /\ UNCHANGED <<now, activeSection, innerWidth, nextId, clickCount, btn,
                   debounceVars, throttleVars, pipeVars>>

\* A timeout of an instance that is gone fires: its setter changes nothing.
FireGone ==
  \E t \in Due(Gone) :
    /\ timers' = timers \ {t}
    /\ UNCHANGED <<laterVars, teardown>>
    /\ UNCHANGED <<now, activeSection, innerWidth, nextId, buttonVars,
                   debounceVars, throttleVars, pipeVars>>

\* App: the navigation mounts DebouncedButton with the Debounce & Throttle
\* page and unmounts it with it.  The component has no effect and no cleanup:
\* its pending timeouts stay in the table when it is unmounted.
NavigateB(s) ==
  /\ s # activeSection
  /\ activeSection' = s
  /\ clickCount' = 0
  /\ debouncedCount' = 0
  /\ btn' = NoClicks
  /\ timers' = {IF t.owner = "button" THEN [t EXCEPT !.owner = Gone] ELSE t : t \in timers}
  /\ UNCHANGED <<laterVars, teardown>>
  /\ UNCHANGED <<now, innerWidth, nextId, debounceVars, throttleVars, pipeVars>>

TickB == Tick(ButtonHorizon)

NextB ==
  \/ TickB
  \/ \E s \in Sections : NavigateB(s)
  \/ Click
  \/ FireButton
  \/ FireGone

----------------------------------------------------------------------------
(* CustomHookExample: useDebounce(input, 300), then useThrottle(..., 1000) *)

\* Observation: a request made by a new debounced input was dropped inside
\* the window an earlier API call opened, and no API call was made since.
NoRequests == [dropped |-> FALSE]

\* if (debouncedInput): the effect calls throttledApiCall for a non-empty input.
ApiRequested(debounced) == debounced # ""

\* A callback that closes over the debounced input of the previous render.
ApiLogged_Stale(previous, rendered) == previous

\* console.log('API call made for:', debouncedInput): the callback is created
\* in the render whose effect calls it and names that render's debounced input.
ApiLogged(previous, rendered) == rendered

\* The render that follows a state change, with debounced input `rendered`
\* (`previous` before the change).  throttledApiCall is recreated in every
\* render, its callback being a new closure, so the effect runs after every
\* render and calls it when the debounced input is not empty.  An executed
\* call sets apiCalls, which renders again and runs the effect once more; that
\* second call finds lastRun.current = Date.now().
RenderEffect(previous, rendered) ==
  LET first == ApiRequested(rendered) /\ ThrottleOpen(apiLastRun, ApiThrottle)
      lastRun1 == IF ApiRequested(rendered)
                    THEN ThrottleLastRun(apiLastRun, ApiThrottle) ELSE apiLastRun
      second == first /\ ThrottleOpen(lastRun1, ApiThrottle)
  IN  /\ apiCalls' = apiCalls + (IF first THEN 1 ELSE 0) + (IF second THEN 1 ELSE 0)
      /\ apiLastRun' = IF first THEN ThrottleLastRun(lastRun1, ApiThrottle) ELSE lastRun1
      /\ apiLog' = IF first THEN ApiLogged(previous, rendered) ELSE apiLog
      /\ pipe' = [dropped |->
                    IF first THEN FALSE
                    ELSE pipe.dropped
                         \/ (rendered # previous /\ ApiRequested(rendered) /\ apiCalls > 0)]

\* onChange of the input: setInput; the effect of useDebounce re-runs (cleanup,
\* then a new timeout), and the component has rendered.
TypeInput(v) ==
  /\ activeSection = "debounceThrottle"
  /\ v # input
  /\ CanSchedule
  /\ InHorizon(InputDelay, PipelineHorizon)
  /\ input' = v
  /\ timers' = UseDebounceEffect(UseDebounceCleanup(timers, inputHandler),
                                 nextId, "input", v, InputDelay)
  /\ inputHandler' = nextId
  /\ nextId' = nextId + 1
  /\ RenderEffect(debouncedInput, debouncedInput)
  /\ UNCHANGED <<laterVars, teardown>>
  /\ UNCHANGED <<now, activeSection, innerWidth, debouncedInput,
                 debounceVars, throttleVars, buttonVars>>

\* The timeout of useDebounce fires: setDebouncedValue(value).  Setting the
\* state to the value it has renders nothing.
FireInput ==
  \E t \in Due("input") :
    /\ timers' = timers \ {t}
    /\ debouncedInput' = UseDebounceEmit(t)
    /\ IF UseDebounceEmit(t) # debouncedInput
         THEN RenderEffect(debouncedInput, UseDebounceEmit(t))
         ELSE UNCHANGED <<apiCalls, apiLastRun, apiLog, pipe>>
    /\ UNCHANGED <<laterVars, teardown>>
    /\ UNCHANGED <<now, activeSection, innerWidth, nextId, input, inputHandler,
                   debounceVars, throttleVars, buttonVars>>

\* App: the navigation mounts CustomHookExample with the Debounce & Throttle
\* page (the input is empty, useDebounce sets its first timeout, the effect
\* requests nothing) and unmounts it with it (the cleanup of useDebounce).
NavigateP(s) ==
  /\ s # activeSection
  /\ s = "debounceThrottle" => CanSchedule
  /\ activeSection' = s
  /\ input' = ""
  /\ debouncedInput' = ""
  /\ apiCalls' = 0
  /\ apiLog' = NoCapture
  /\ pipe' = NoRequests
  /\ IF s = "debounceThrottle"
       THEN /\ timers' = UseDebounceEffect(timers, nextId, "input", "", InputDelay)
            /\ inputHandler' = nextId
            /\ nextId' = nextId + 1
            /\ apiLastRun' = UseThrottleInit
       ELSE /\ timers' = IF activeSection = "debounceThrottle"
                            THEN UseDebounceCleanup(timers, inputHandler) ELSE timers
            /\ inputHandler' = NoHandle
            /\ apiLastRun' = 0
            /\ UNCHANGED nextId
  /\ UNCHANGED <<laterVars, teardown>>
  /\ UNCHANGED <<now, innerWidth, debounceVars, throttleVars, buttonVars>>

TickP == Tick(PipelineHorizon)

NextP ==
  \/ TickP
  \/ \E s \in Sections : NavigateP(s)
  \/ \E v \in Values : TypeInput(v)
  \/ FireInput

----------------------------------------------------------------------------
(* The host interval facility *)

\* setInterval(callback, every): the table with the new interval.
SetInterval(I, id, owner, every) ==
  I \cup {[id |-> id, owner |-> owner, due |-> now + every, every |-> every]}

\* clearInterval(id): a no-op for an id that is not active.
ClearInterval(I, id) == {t \in I : t.id # id}

Active(owner) == {t \in intervals : t.owner = owner}

DueI(owner) == {t \in Active(owner) : t.due <= now}

\* The table once the callback of interval t has run: the interval stays,
\* due again one period later.
Rearm(I, t) == (I \ {t}) \cup {[t EXCEPT !.due = now + t.every]}

----------------------------------------------------------------------------
(* IntervalCounter and MultipleTimers: the cleanups of their effects *)

\* The cleanup of IntervalCounter: if (interval) clearInterval(interval).
IntervalCleanup(I, interval) ==
  IF interval # NoHandle THEN ClearInterval(I, interval) ELSE I

\* A cleanup that clears timer1 only.
MultipleCleanup_First(T, ids) ==
  {t \in T : Len(ids) = 0 \/ t.id # ids[1]}

\* The cleanup of MultipleTimers: clearTimeout of timer1, timer2, timer3; an
\* effect run that returned early (isActive false) has no cleanup.
MultipleCleanup(T, ids) ==
  {t \in T : \A i \in 1..Len(ids) : t.id # ids[i]}

----------------------------------------------------------------------------
(* TimerWithRef *)

(* Observation of TimerWithRef since it was mounted: the calls of          *)
(* stopTimer, the last function called ("ignored" for a startTimer that    *)
(* returned early), and the clearInterval calls stopTimer has made since   *)
(* the last interval was created.                                          *)
NoOps == [stops |-> 0, lastOp |-> "none", cancels |-> 0]

\* A stopTimer that leaves the ref as it is.
StopRef_Keep(ref) == ref

\* stopTimer: timerRef.current = null once the interval is cleared.
StopRef(ref) == NoHandle

\* stopTimer: if (timerRef.current) clearInterval(timerRef.current).
StopIntervals(I, ref) == IF ref # NoHandle THEN ClearInterval(I, ref) ELSE I

\* The cleanup of the mount effect: if (timerRef.current) clearInterval(...).
TimerRefCleanup(I, ref) == IF ref # NoHandle THEN ClearInterval(I, ref) ELSE I

\* A startTimer without its guard.
StartBlocked_Never(ref) == FALSE

\* startTimer: if (timerRef.current) return.
StartBlocked(ref) == ref # NoHandle

\* startTimer: if (timerRef.current) return; timerRef.current = setInterval(..., 1000).
StartTimer ==
  /\ activeSection = "timeoutInterval"
  /\ IF StartBlocked(timerRef)
       THEN /\ UNCHANGED <<intervals, nextId, timerRef>>
            /\ tw' = [tw EXCEPT !.lastOp = "ignored"]
       ELSE /\ CanSchedule
            /\ InHorizon(TimerRefPeriod, MaxTime)
            /\ intervals' = SetInterval(intervals, nextId, "timerRef", TimerRefPeriod)
            /\ timerRef' = nextId
            /\ nextId' = nextId + 1
            /\ tw' = [tw EXCEPT !.lastOp = "start", !.cancels = 0]
  /\ UNCHANGED farVars
  /\ UNCHANGED <<now, activeSection, innerWidth, timers, twCount, icVars, mtVars,
                 teardown, debounceVars, throttleVars, buttonVars, pipeVars>>

\* stopTimer.
StopTimer ==
  /\ activeSection = "timeoutInterval"
  /\ tw.stops < MaxStops
  /\ intervals' = StopIntervals(intervals, timerRef)
  /\ timerRef' = IF timerRef # NoHandle THEN StopRef(timerRef) ELSE timerRef
  /\ tw' = [tw EXCEPT !.stops = @ + 1, !.lastOp = "stop",
                      !.cancels = IF timerRef # NoHandle THEN @ + 1 ELSE @]
  /\ UNCHANGED farVars
  /\ UNCHANGED <<now, activeSection, innerWidth, hostVars, twCount, icVars, mtVars,
                 teardown, debounceVars, throttleVars, buttonVars, pipeVars>>

\* resetTimer: stopTimer(); setCount(0).
ResetTimer ==
  /\ activeSection = "timeoutInterval"
  /\ intervals' = StopIntervals(intervals, timerRef)
  /\ timerRef' = IF timerRef # NoHandle THEN StopRef(timerRef) ELSE timerRef
  /\ twCount' = 0
  /\ tw' = [tw EXCEPT !.lastOp = "reset",
                      !.cancels = IF timerRef # NoHandle THEN @ + 1 ELSE @]
  /\ UNCHANGED farVars
  /\ UNCHANGED <<now, activeSection, innerWidth, hostVars, icVars, mtVars,
                 teardown, debounceVars, throttleVars, buttonVars, pipeVars>>

\* The interval of TimerWithRef ticks: setCount(prev => prev + 1).
FireTimerRef ==
  \E t \in DueI("timerRef") :
    /\ intervals' = Rearm(intervals, t)
    /\ twCount' = twCount + 1
    /\ UNCHANGED farVars
    /\ UNCHANGED <<now, activeSection, innerWidth, hostVars, timerRef, tw, icVars,
                   mtVars, teardown, debounceVars, throttleVars, buttonVars, pipeVars>>

----------------------------------------------------------------------------
(* App: the navigation unmounts the page shown and mounts the chosen one.  *)
(* Unmounting runs the cleanups of the effects; mounting initialises the   *)
(* state and runs the effects.                                             *)

\* The timer table once the components of section s are unmounted.
UnmountTimers(s) ==
  CASE s = "debounceThrottle" -> UseDebounceCleanup(timers, searchHandler)
    [] s = "timeoutInterval" -> MultipleCleanup(DelayedCleanup(timers, daTimer), mtTimers)
    [] s = "customHooks" -> WindowSizeCleanup(timers, timeoutId)
    [] OTHER -> timers

\* The interval table once the components of section s are unmounted.
UnmountIntervals(s) ==
  IF s = "timeoutInterval"
    THEN TimerRefCleanup(IntervalCleanup(intervals, icInterval), timerRef)
    ELSE intervals

\* The cleanup of useDebounce or of useWindowSize that runs when section s is
\* unmounted, with the handle it captured.
UnmountCleaned(s) ==
  CASE s = "debounceThrottle" -> [teardown EXCEPT !.owner = "search", !.handle = searchHandler]
    [] s = "customHooks" -> [teardown EXCEPT !.owner = "winsize", !.handle = timeoutId]
    [] OTHER -> teardown

NavigateD(s) ==
  /\ s # activeSection
  /\ s \in {"debounceThrottle", "timeoutInterval"} => CanSchedule
  /\ activeSection' = s
  /\ searchTerm' = ""
  /\ debouncedSearchTerm' = ""
  /\ daInput' = ""
  /\ daDebouncedInput' = ""
  /\ hist' = [d \in Debouncers |-> NoHist]
  /\ pendingAtUnmount' = {d \in Debouncers : SectionOf(d) = activeSection /\ Pending(d) # {}}
  /\ windowSize' = IF s = "customHooks" THEN innerWidth ELSE NoWidth
  /\ timeoutId' = NoHandle
  /\ CASE s = "debounceThrottle" ->
            /\ timers' = UseDebounceEffect(UnmountTimers(activeSection), nextId,
                                           "search", "", SearchDelay)
            /\ searchHandler' = nextId
            /\ daTimer' = NoHandle
            /\ nextId' = nextId + 1
       [] s = "timeoutInterval" ->
            /\ timers' = DelayedEffect(UnmountTimers(activeSection), nextId, "")
            /\ daTimer' = nextId
            /\ searchHandler' = NoHandle
            /\ nextId' = nextId + 1
       [] OTHER ->
            /\ timers' = UnmountTimers(activeSection)
            /\ searchHandler' = NoHandle
            /\ daTimer' = NoHandle
            /\ UNCHANGED nextId
  /\ intervals' = UnmountIntervals(activeSection)
  /\ icCount' = 0
  /\ icRunning' = FALSE
  /\ icInterval' = NoHandle
  /\ messages' = <<>>
  /\ isActive' = FALSE
  /\ mtTimers' = <<>>
  /\ mtRun' = <<>>
  /\ twCount' = 0
  /\ timerRef' = NoHandle
  /\ tw' = NoOps
  /\ teardown' = UnmountCleaned(activeSection)
  /\ UNCHANGED <<now, innerWidth, ranUnmounted>>
  /\ UNCHANGED farVars
  /\ UNCHANGED <<throttleVars, buttonVars, pipeVars>>

----------------------------------------------------------------------------
(* A cleanup of useDebounce or of useWindowSize that has run is run again *)

\* Observation: the cleanup that ran last, the handle it had captured, and
\* the number of second runs.
NoTeardown == [owner |-> "none", handle |-> NoHandle, reruns |-> 0]

CleanupAgain(d) ==
  /\ teardown.owner = d
  /\ teardown.reruns < MaxReruns
  /\ timers' = IF d = "search" THEN UseDebounceCleanup(timers, teardown.handle)
                               ELSE WindowSizeCleanup(timers, teardown.handle)
  /\ teardown' = [teardown EXCEPT !.reruns = @ + 1]
  /\ UNCHANGED <<now, activeSection, innerWidth, nextId, laterVars, debounceVars,
                 throttleVars, buttonVars, pipeVars>>

----------------------------------------------------------------------------
(* The hook instances of the Debounce & Throttle page side by side:        *)
(* useDebounce in DebouncedSearch and in CustomHookExample, useThrottle in *)
(* ThrottledScroll, in ThrottledResize and in CustomHookExample.           *)

\* App: the navigation mounts the components of the Debounce & Throttle page
\* together (the two useDebounce effects set their first timeouts, the refs of
\* the three useThrottle are initialised) and unmounts them together (the
\* cleanups of the two useDebounce effects).
NavigateI(s) ==
  /\ s # activeSection
  /\ s = "debounceThrottle" => nextId + 1 <= MaxTimers
  /\ activeSection' = s
  /\ searchTerm' = ""
  /\ debouncedSearchTerm' = ""
  /\ hist' = [hist EXCEPT !["search"] = NoHist]
  /\ input' = ""
  /\ debouncedInput' = ""
  /\ apiCalls' = 0
  /\ apiLog' = NoCapture
  /\ pipe' = NoRequests
  /\ scrollCount' = 0
  /\ throttledCount' = 0
  /\ resizeCount' = 0
  /\ shownWidth' = IF s = "debounceThrottle" THEN innerWidth ELSE NoWidth
  /\ thr' = [h \in Throttlers |-> NoCalls]
  /\ IF s = "debounceThrottle"
       THEN /\ timers' = UseDebounceEffect(
                            UseDebounceEffect(timers, nextId, "search", "", SearchDelay),
                            nextId + 1, "input", "", InputDelay)
            /\ searchHandler' = nextId
            /\ inputHandler' = nextId + 1
            /\ nextId' = nextId + 2
            /\ scrollLastRun' = UseThrottleInit
            /\ resizeLastRun' = UseThrottleInit
            /\ apiLastRun' = UseThrottleInit
       ELSE /\ timers' = IF activeSection = "debounceThrottle"
                            THEN UseDebounceCleanup(
                                   UseDebounceCleanup(timers, searchHandler), inputHandler)
                            ELSE timers
            /\ searchHandler' = NoHandle
            /\ inputHandler' = NoHandle
            /\ scrollLastRun' = 0
            /\ resizeLastRun' = 0
            /\ apiLastRun' = 0
            /\ UNCHANGED nextId
  /\ UNCHANGED <<now, innerWidth, delayedVars, winVars, pendingAtUnmount,
                 ranUnmounted, buttonVars, laterVars, teardown>>

TickI == Tick(InstancesHorizon)

\* The scroll and resize events of the page.
ScrollI ==
  /\ thr["scroll"].calls < MaxInstanceCalls
  /\ Scroll

ResizeI(w) ==
  /\ thr["resize"].calls < MaxInstanceCalls
  /\ ResizeThrottled(w)

NextI ==
  \/ TickI
  \/ \E s \in Sections : NavigateI(s)
  \/ \E v \in Values : TypeSearch(v)
  \/ FireSearch
  \/ \E v \in Values : TypeInput(v)
  \/ FireInput
  \/ ScrollI
  \/ \E w \in Widths : ResizeI(w)

----------------------------------------------------------------------------
(* useDebounce(value, delay) and useThrottle(callback, delay) with a delay  *)
(* of the caller's choice.  Neither hook looks at the delay before it uses *)
(* it; the host runs a timeout of a negative delay as soon as it can.      *)

\* The pages modelled above; the hooks below are on none of them.
pageVars == <<activeSection, innerWidth, debounceVars, throttleVars, buttonVars,
              pipeVars, timerPageVars, teardown>>

NoHook == [kind |-> "none", delay |-> 0, value |-> "", debounced |-> "",
           handler |-> NoHandle, lastRun |-> 0, runs |-> 0]

\* A component that calls useDebounce('', delay) or useThrottle(cb, delay) is
\* mounted: the first render and its effect.
UseHook(kind, delay) ==
  /\ cfg.kind = "none"
  /\ CanSchedule
  /\ IF kind = "debounce"
       THEN /\ timers' = UseDebounceEffect(timers, nextId, "hook", "", delay)
            /\ nextId' = nextId + 1
            /\ cfg' = [NoHook EXCEPT !.kind = kind, !.delay = delay, !.handler = nextId]
       ELSE /\ cfg' = [NoHook EXCEPT !.kind = kind, !.delay = delay,
                                     !.lastRun = UseThrottleInit]
            /\ UNCHANGED hostVars
  /\ UNCHANGED <<now, intervals, pageVars, pollVars, reducerVars, exampleVars>>

\* The value passed to useDebounce changes: cleanup, then the effect.
ChangeValue(v) ==
  /\ cfg.kind = "debounce"
  /\ v # cfg.value
  /\ CanSchedule
  /\ timers' = UseDebounceEffect(UseDebounceCleanup(timers, cfg.handler),
                                 nextId, "hook", v, cfg.delay)
  /\ nextId' = nextId + 1
  /\ cfg' = [cfg EXCEPT !.value = v, !.handler = nextId]
  /\ UNCHANGED <<now, intervals, pageVars, pollVars, reducerVars, exampleVars>>

\* The timeout of useDebounce fires: its callback runs.
FireHook ==
  \E t \in Due("hook") :
    /\ timers' = timers \ {t}
    /\ cfg' = [cfg EXCEPT !.debounced = UseDebounceEmit(t), !.runs = @ + 1]
    /\ UNCHANGED <<now, nextId, intervals, pageVars, pollVars, reducerVars, exampleVars>>

\* The function useThrottle returned is called.
Request ==
  /\ cfg.kind = "throttle"
  /\ cfg.runs < MaxCalls
  /\ cfg' = [cfg EXCEPT !.runs = IF ThrottleOpen(cfg.lastRun, cfg.delay) THEN @ + 1 ELSE @,
                        !.lastRun = ThrottleLastRun(cfg.lastRun, cfg.delay)]
  /\ UNCHANGED <<now, hostVars, intervals, pageVars, pollVars, reducerVars, exampleVars>>

\* The component is unmounted: the cleanup of useDebounce.
Dispose ==
  /\ cfg.kind # "none"
  /\ timers' = UseDebounceCleanup(timers, cfg.handler)
  /\ cfg' = NoHook
  /\ UNCHANGED <<now, nextId, intervals, pageVars, pollVars, reducerVars, exampleVars>>

TickC == Tick(ConfigHorizon)

NextC ==
  \/ TickC
  \/ \E kind \in {"debounce", "throttle"}, delay \in Delays : UseHook(kind, delay)
  \/ \E v \in Values : ChangeValue(v)
  \/ FireHook
  \/ Request
  \/ Dispose

----------------------------------------------------------------------------
(* The Polling & Real-time page: ConditionalPolling.  The host runs the    *)
(* callbacks of timeouts and intervals in the order in which they are due. *)

PollingPages == {"useState", "polling"}

\* What the polling page leaves alone.
otherPages == <<innerWidth, debounceVars, throttleVars, buttonVars, pipeVars,
                timerPageVars, teardown, cfg, reducerVars, exampleVars>>

\* No pending timeout and no active interval is due before `due`.
IsNext(due) ==
  /\ \A u \in timers : u.due >= due
  /\ \A u \in intervals : u.due >= due

CanPoll == nextId <= MaxPollIds

\* A fetchData that never stops the polling.
ReachesThreshold_Never(len, limit) == FALSE

\* fetchData: if (data.length + 1 >= threshold), on the data and the threshold
\* of the render that created this fetchData.
ReachesThreshold(len, limit) == len + 1 >= limit

\* The condition of the effect: isPolling && data.length < threshold.
PollWanted(polling, len, limit) == polling /\ len < limit

\* The cleanup of the effect: if (intervalId) clearInterval(intervalId).
PollCleanup(I, id) == IF id # NoHandle THEN ClearInterval(I, id) ELSE I

\* The effect on [isPolling, data.length, threshold] re-runs with the state
\* (polling, len, limit): the cleanup of the previous run, then
\* setInterval(fetchData, 1000) if the condition holds.
PollEffect(polling, len, limit) ==
  IF PollWanted(polling, len, limit)
    THEN /\ CanPoll
         /\ intervals' = SetInterval(PollCleanup(intervals, cpInterval), nextId,
                                     "poll", PollPeriod)
         /\ cpInterval' = nextId
         /\ nextId' = nextId + 1
    ELSE /\ intervals' = PollCleanup(intervals, cpInterval)
         /\ cpInterval' = NoHandle
         /\ UNCHANGED nextId

\* startPolling (the button is disabled while polling): setData([]);
\* setIsPolling(true).
StartPolling ==
  /\ activeSection = "polling"
  /\ ~isPolling
  /\ cpData' = 0
  /\ isPolling' = TRUE
  /\ PollEffect(TRUE, 0, threshold)
  /\ UNCHANGED <<now, activeSection, timers, threshold, rtVars, otherPages>>

\* stopPolling (the button is disabled while not polling): setIsPolling(false).
StopPolling ==
  /\ activeSection = "polling"
  /\ isPolling
  /\ isPolling' = FALSE
  /\ PollEffect(FALSE, cpData, threshold)
  /\ UNCHANGED <<now, activeSection, timers, cpData, threshold, rtVars, otherPages>>

\* The threshold input is set before a round of polling: no data, no polling,
\* no fetch in flight.
SetThreshold(n) ==
  /\ activeSection = "polling"
  /\ ~isPolling
  /\ cpData = 0
  /\ Pending("fetch") = {}
  /\ n # threshold
  /\ threshold' = n
  /\ PollEffect(FALSE, cpData, n)
  /\ UNCHANGED <<now, activeSection, timers, isPolling, cpData, rtVars, otherPages>>

\* The interval ticks: fetchData starts and waits 300 ms; it belongs to the
\* render that created the interval and sees that render's data.
FirePoll ==
  \E t \in DueI("poll") :
    /\ IsNext(t.due)
    /\ CanPoll
    /\ intervals' = Rearm(intervals, t)
    /\ timers' = SetTimeout(timers, nextId, "fetch", FetchDelay, cpData)
    /\ nextId' = nextId + 1
    /\ UNCHANGED <<now, activeSection, cpVars, rtVars, otherPages>>

\* The wait of a fetchData is over: setData(prev => [...prev, newItem]) and,
\* if its own data had reached the threshold with this item,
\* setIsPolling(false); then the render and the effect.
FetchDone ==
  \E t \in Due("fetch") :
    /\ IsNext(t.due)
    /\ timers' = timers \ {t}
    /\ cpData' = cpData + 1
    /\ isPolling' = (isPolling /\ ~ReachesThreshold(t.val, threshold))
    /\ PollEffect(isPolling /\ ~ReachesThreshold(t.val, threshold), cpData + 1, threshold)
    /\ UNCHANGED <<now, activeSection, threshold, rtVars, otherPages>>

\* App: the navigation mounts the polling page and unmounts it: the cleanup
\* of ConditionalPolling clears its interval; a fetchData that is waiting
\* goes on and will set the state of an instance that is gone.
NavigateL(s) ==
  /\ s # activeSection
  /\ activeSection' = s
  /\ isPolling' = FALSE
  /\ cpData' = 0
  /\ threshold' = DefaultThreshold
  /\ cpInterval' = NoHandle
  /\ counter' = 0
  /\ isRunning' = FALSE
  /\ rtInterval' = DefaultInterval
  /\ intervals' = IF activeSection = "polling"
                     THEN PollCleanup(intervals, cpInterval) ELSE intervals
  /\ timers' = {IF t.owner = "fetch" THEN [t EXCEPT !.owner = Gone] ELSE t : t \in timers}
  /\ UNCHANGED <<now, nextId, otherPages>>

TickL == Tick(PollHorizon)

NextL ==
  \/ TickL
  \/ \E s \in PollingPages : NavigateL(s)
  \/ \E n \in 1..MaxThreshold : SetThreshold(n)
  \/ StartPolling
  \/ StopPolling
  \/ FirePoll
  \/ FetchDone
  \/ FireGone

----------------------------------------------------------------------------
(* useLocalStorage, as LocalStorageExample uses it.  A text is the sequence *)
(* of its characters, so that JSON.stringify and JSON.parse are computed    *)
(* character by character.                                                  *)

\* The values of the script that are followed.
Num(n) == [t |-> "number", n |-> n, s |-> <<>>, b |-> FALSE]
Str(s) == [t |-> "string", n |-> 0, s |-> s, b |-> FALSE]
Bool(b) == [t |-> "boolean", n |-> 0, s |-> <<>>, b |-> b]
Null == [t |-> "null", n |-> 0, s |-> <<>>, b |-> FALSE]

Quote == "\""
Backslash == "\\"

\* The JSON-serializable values setValue is called with: the falsy 0, '' and
\* false among them, a number of two digits, a string that needs escaping.
JsValues == {Num(0), Num(12), Str(<<>>), Str(<<"a", Quote>>),
             Bool(FALSE), Bool(TRUE), Null}

\* useLocalStorage("userName", ""), ("theme", "light"), ("count", 0)
Keys == {"userName", "theme", "count"}
InitialValue ==
  [key \in Keys |->
     CASE key = "userName" -> Str(<<>>)
       [] key = "theme" -> Str(<<"l", "i", "g", "h", "t">>)
       [] OTHER -> Num(0)]

Digits == <<"0", "1", "2", "3", "4", "5", "6", "7", "8", "9">>

\* The decimal digits of a natural number.
RECURSIVE DigitText(_)
DigitText(n) ==
  IF n < 10 THEN <<Digits[n + 1]>>
  ELSE DigitText(n \div 10) \o <<Digits[(n % 10) + 1]>>

\* The characters of a string with quote and backslash escaped.
RECURSIVE Escape(_)
Escape(chars) ==
  IF chars = <<>> THEN <<>>
  ELSE (IF Head(chars) \in {Quote, Backslash} THEN <<Backslash, Head(chars)>>
        ELSE <<Head(chars)>>) \o Escape(Tail(chars))

\* JSON.stringify(value)
Stringify(v) ==
  CASE v.t = "number" ->
         IF v.n < 0 THEN <<"-">> \o DigitText(-v.n) ELSE DigitText(v.n)
    [] v.t = "string" -> <<Quote>> \o Escape(v.s) \o <<Quote>>
    [] v.t = "boolean" ->
         IF v.b THEN <<"t", "r", "u", "e">> ELSE <<"f", "a", "l", "s", "e">>
    [] OTHER -> <<"n", "u", "l", "l">>

\* The value of a digit, 10 for any other character.
DigitValue(c) ==
  IF \E d \in 1..10 : Digits[d] = c
    THEN (CHOOSE d \in 1..10 : Digits[d] = c) - 1
    ELSE 10

Thrown == [ok |-> FALSE, value |-> Null]
Parsed(v) == [ok |-> TRUE, value |-> v]

\* The number a sequence of digits denotes; a SyntaxError when the sequence is
\* empty, holds another character or has a leading zero.
RECURSIVE DigitsValue(_, _)
DigitsValue(chars, acc) ==
  IF chars = <<>> THEN acc
  ELSE DigitsValue(Tail(chars), 10 * acc + DigitValue(Head(chars)))

ParseNumber(chars) ==
  LET neg == chars # <<>> /\ Head(chars) = "-"
      body == IF neg THEN Tail(chars) ELSE chars
  IN IF \/ body = <<>>
        \/ \E i \in 1..Len(body) : DigitValue(body[i]) = 10
        \/ Len(body) > 1 /\ Head(body) = "0"
       THEN Thrown
       ELSE Parsed(Num(IF neg THEN -DigitsValue(body, 0) ELSE DigitsValue(body, 0)))

\* The string between the quotes of a JSON string; a SyntaxError on a quote
\* that is not escaped or an escape that is not of a quote or a backslash.
RECURSIVE Unescape(_, _)
Unescape(chars, acc) ==
  IF chars = <<>> THEN Parsed(Str(acc))
  ELSE IF Head(chars) = Quote THEN Thrown
  ELSE IF Head(chars) = Backslash
    THEN IF Len(chars) >= 2 /\ chars[2] \in {Quote, Backslash}
           THEN Unescape(Tail(Tail(chars)), Append(acc, chars[2]))
           ELSE Thrown
  ELSE Unescape(Tail(chars), Append(acc, Head(chars)))

\* JSON.parse(text)
Parse(text) ==
  IF text = <<"t", "r", "u", "e">> THEN Parsed(Bool(TRUE))
  ELSE IF text = <<"f", "a", "l", "s", "e">> THEN Parsed(Bool(FALSE))
  ELSE IF text = <<"n", "u", "l", "l">> THEN Parsed(Null)
  ELSE IF Len(text) >= 2 /\ text[1] = Quote /\ text[Len(text)] = Quote
    THEN Unescape(SubSeq(text, 2, Len(text) - 1), <<>>)
  ELSE ParseNumber(text)

\* getItem returns null for a key that was never set.
NoItem == [present |-> FALSE, text |-> <<>>]
Item(text) == [present |-> TRUE, text |-> text]

\* An initializer that tests the parsed value, not the item.
ItemTruthy_Value(item) ==
  /\ item.present
  /\ item.text \notin {<<>>, <<"0">>, <<Quote, Quote>>, <<"f", "a", "l", "s", "e">>,
                        <<"n", "u", "l", "l">>}

\* item ? ... : ...  -- null and the empty text are falsy.
ItemTruthy(item) == item.present /\ item.text # <<>>

\* The initializer of storedValue: the parsed item, the initial value when
\* there is none or JSON.parse throws.
ReadStored(key) ==
  LET item == localStorage[key]
  IN IF ItemTruthy(item)
       THEN (IF Parse(item.text).ok THEN Parse(item.text).value ELSE InitialValue[key])
       ELSE InitialValue[key]

NotSet == [set |-> [key \in Keys |-> [done |-> FALSE, value |-> Null]],
           refreshed |-> FALSE, throws |-> 0]

\* What the storage hook leaves alone.
otherThanStorage == <<now, activeSection, innerWidth, hostVars, intervals, debounceVars,
                      throttleVars, buttonVars, pipeVars, timerPageVars, teardown,
                      cfg, pollVars, reducerVars, boundaryVars>>

\* setValue(value) of the instance of a key, with setItem storing the text.
\* (An updater function contributes the value it returns.)
SetValue(key, value) ==
  /\ storedValue' = [storedValue EXCEPT ![key] = value]
  /\ localStorage' = [localStorage EXCEPT ![key] = Item(Stringify(value))]
  /\ ls' = [ls EXCEPT !.set[key] = [done |-> TRUE, value |-> value],
                      !.refreshed = FALSE]
  /\ UNCHANGED otherThanStorage

\* setValue(value) with setItem throwing (the quota is exceeded): the state
\* was set before, the error is caught and logged, the item stays as it was.
SetValueThrows(key, value) ==
  /\ ls.throws < MaxThrows
  /\ storedValue' = [storedValue EXCEPT ![key] = value]
  /\ ls' = [ls EXCEPT !.set[key] = [done |-> FALSE, value |-> Null],
                      !.refreshed = FALSE,
                      !.throws = @ + 1]
  /\ UNCHANGED <<localStorage, otherThanStorage>>

\* The page is refreshed: every instance is initialized again.
Refresh ==
  /\ storedValue' = [key \in Keys |-> ReadStored(key)]
  /\ ls' = [ls EXCEPT !.refreshed = TRUE]
  /\ UNCHANGED <<localStorage, otherThanStorage>>

NextG ==
  \/ \E key \in Keys, value \in JsValues : SetValue(key, value)
  \/ \E key \in Keys, value \in JsValues : SetValueThrows(key, value)
  \/ Refresh

----------------------------------------------------------------------------
(* ErrorBoundary, around the children of the four examples of the page.     *)
(* A render that throws, the state derived from the error, the render of    *)
(* the fallback and componentDidCatch are one step: the library runs them   *)
(* within the task that caused the render.                                  *)

\* Example 1 to 4: ErrorThrower, ErrorThrowerWithReset, ErrorThrowerWithLog,
\* ChildErrorDemo.
Examples == 1..4

NoError == "null"

\* The error the child of an example throws.
ErrorOf(i) ==
  CASE i = 1 -> "This is a thrown error!"
    [] i = 2 -> "Error after clicking!"
    [] i = 3 -> "This error will be logged!"
    [] OTHER -> "Error in child component!"

\* Whether the child of an example throws while rendering: ErrorThrowerWithReset
\* when its shouldThrow is set, the others always.
ChildThrows(i, should) == IF i = 2 THEN should ELSE TRUE

\* Only the boundary of Example 3 is given an onError.
HasOnError(i) == i = 3

\* A getDerivedStateFromError that drops the error.
GetDerivedStateFromError_Flag(error) == [hasError |-> TRUE, error |-> NoError]

\* getDerivedStateFromError(error)
GetDerivedStateFromError(error) == [hasError |-> TRUE, error |-> error]

\* constructor: this.state = { hasError: false, error: null }, also what
\* handleReset sets.
NotFailed == [hasError |-> FALSE, error |-> NoError]

\* render(): the fallback when hasError, the children otherwise.
Shows(state) == IF state.hasError THEN "fallback" ELSE "children"

Rendered(state) == [hasError |-> state.hasError, error |-> state.error,
                    shows |-> Shows(state)]

\* A boundary of a page that is not shown.
Unmounted == [hasError |-> FALSE, error |-> NoError, shows |-> "unmounted"]

NotObserved == [renders |-> 0, caught |-> 0, logged |-> 0, resets |-> 0]

\* The boundary of example i, in this.state = state, renders: when it is to
\* show its children the child renders, and when that throws the state is
\* derived from the error and the fallback is rendered.
RenderBoundary(i, state, should) ==
  IF state.hasError THEN Rendered(state)
  ELSE IF ChildThrows(i, should) THEN Rendered(GetDerivedStateFromError(ErrorOf(i)))
  ELSE Rendered(state)

\* What the render of RenderBoundary adds to the observation: a render of the
\* child, and when it threw a catch and, through componentDidCatch, an onError
\* call if the boundary was given one.
Observe(i, state, should, o) ==
  IF state.hasError THEN o
  ELSE IF ChildThrows(i, should)
    THEN [o EXCEPT !.renders = @ + 1, !.caught = @ + 1,
                   !.logged = IF HasOnError(i) THEN @ + 1 ELSE @]
  ELSE [o EXCEPT !.renders = @ + 1]

\* What the error boundaries leave alone.
otherThanBoundaries == <<now, activeSection, innerWidth, hostVars, intervals,
                         debounceVars, throttleVars, buttonVars, pipeVars,
                         timerPageVars, teardown, cfg, pollVars, reducerVars,
                         storageVars>>

\* The Error Boundaries page is shown: every boundary is constructed and
\* renders its child, ErrorThrowerWithReset with shouldThrow = false.
OpenPage ==
  /\ \A i \in Examples : boundaries[i].shows = "unmounted"
  /\ boundaries' = [i \in Examples |-> RenderBoundary(i, NotFailed, FALSE)]
  /\ eb' = [i \in Examples |-> Observe(i, NotFailed, FALSE, NotObserved)]
  /\ shouldThrow' = FALSE
  /\ UNCHANGED otherThanBoundaries

\* Another page is shown: the boundaries and their children are unmounted.
ClosePage ==
  /\ \E i \in Examples : boundaries[i].shows # "unmounted"
  /\ boundaries' = [i \in Examples |-> Unmounted]
  /\ eb' = [i \in Examples |-> NotObserved]
  /\ shouldThrow' = FALSE
  /\ UNCHANGED otherThanBoundaries

\* The Throw Error button of ErrorThrowerWithReset: setShouldThrow(true), the
\* child renders again and throws; the child is unmounted with the subtree the
\* fallback replaces, and its state with it.
ThrowError ==
  /\ boundaries[2].shows = "children"
  /\ boundaries' = [boundaries EXCEPT ![2] =
                      RenderBoundary(2, [hasError |-> @.hasError, error |-> @.error], TRUE)]
  /\ eb' = [eb EXCEPT ![2] =
              Observe(2, [hasError |-> boundaries[2].hasError,
                          error |-> boundaries[2].error], TRUE, @)]
  /\ shouldThrow' = FALSE
  /\ UNCHANGED otherThanBoundaries

\* The Try Again button of the fallback of example i: handleReset sets the
\* state, the boundary renders again and mounts its child anew.
TryAgain(i) ==
  /\ boundaries[i].shows = "fallback"
  /\ eb[i].resets < MaxResets
  /\ boundaries' = [boundaries EXCEPT ![i] = RenderBoundary(i, NotFailed, FALSE)]
  /\ eb' = [eb EXCEPT ![i] = Observe(i, NotFailed, FALSE, [@ EXCEPT !.resets = @ + 1])]
  /\ shouldThrow' = IF i = 2 THEN FALSE ELSE shouldThrow
  /\ UNCHANGED otherThanBoundaries

NextE ==
  \/ OpenPage
  \/ ClosePage
  \/ ThrowError
  \/ \E i \in Examples : TryAgain(i)

----------------------------------------------------------------------------
(* todoReducer and cartReducer, under the actions their components        *)
(* dispatch.                                                               *)

\* What the reducers leave alone.
otherThanReducers == <<activeSection, innerWidth, hostVars, intervals, debounceVars,
                       throttleVars, buttonVars, pipeVars, timerPageVars, teardown,
                       cfg, pollVars, exampleVars>>

\* todoReducer, on state.todos.
TodoReducer(list, action) ==
  CASE action.type = "ADD_TODO" ->
         Append(list, [id |-> now, text |-> action.payload, completed |-> FALSE])
    [] action.type = "TOGGLE_TODO" ->
         [i \in 1..Len(list) |->
            IF list[i].id = action.payload
              THEN [list[i] EXCEPT !.completed = ~list[i].completed]
              ELSE list[i]]
    [] action.type = "DELETE_TODO" ->
         SelectSeq(list, LAMBDA todo : todo.id # action.payload)
    [] OTHER -> list

\* addTodo: if (newTodo.trim()) dispatch ADD_TODO with the text.
AddTodo(text) ==
  /\ text # ""
  /\ Len(todos) < MaxTodos
  /\ todos' = TodoReducer(todos, [type |-> "ADD_TODO", payload |-> text])
  /\ UNCHANGED <<now, cart, cartLast, otherThanReducers>>

\* The checkbox of a todo shown: dispatch TOGGLE_TODO with its id.
ToggleTodo(i) ==
  /\ i \in 1..Len(todos)
  /\ todos' = TodoReducer(todos, [type |-> "TOGGLE_TODO", payload |-> todos[i].id])
  /\ UNCHANGED <<now, cart, cartLast, otherThanReducers>>

\* The Delete button of a todo shown: dispatch DELETE_TODO with its id.
DeleteTodo(i) ==
  /\ i \in 1..Len(todos)
  /\ todos' = TodoReducer(todos, [type |-> "DELETE_TODO", payload |-> todos[i].id])
  /\ UNCHANGED <<now, cart, cartLast, otherThanReducers>>

\* Time passes.
TickU ==
  /\ now < TodoHorizon
  /\ now' = now + TickMs
  /\ UNCHANGED <<reducerVars, otherThanReducers>>

NextU ==
  \/ TickU
  \/ \E text \in Values : AddTodo(text)
  \/ \E i \in 1..MaxTodos : ToggleTodo(i)
  \/ \E i \in 1..MaxTodos : DeleteTodo(i)

\* The ids of the products of ShoppingCart.
Products == {1, 2, 3}

\* What the user can leave in the quantity input of an item.
QuantityTexts == {"", "-1", "0", "1", "2", "2.5", "abc"}

\* parseInt(text) || 0: the leading integer of the text, 0 when there is none.
ParseQuantity(text) ==
  CASE text = "-1" -> -1
    [] text = "1" -> 1
    [] text = "2" -> 2
    [] text = "2.5" -> 2
    [] OTHER -> 0

NoAction == [type |-> "none", id |-> 0, quantity |-> 0]

HasItem(items, id) == \E i \in 1..Len(items) : items[i].id = id

\* An UPDATE_QUANTITY without its filter.
DropEmpty_Keep(items) == items

\* .filter(item => item.quantity > 0)
DropEmpty(items) == SelectSeq(items, LAMBDA item : item.quantity > 0)

\* Math.max(0, quantity)
Max0(quantity) == IF quantity > 0 THEN quantity ELSE 0

\* cartReducer, on state.items.
CartReducer(items, action) ==
  CASE action.type = "ADD_ITEM" ->
         IF HasItem(items, action.id)
           THEN [i \in 1..Len(items) |->
                   IF items[i].id = action.id
                     THEN [items[i] EXCEPT !.quantity = @ + 1]
                     ELSE items[i]]
           ELSE Append(items, [id |-> action.id, quantity |-> 1])
    [] action.type = "REMOVE_ITEM" ->
         SelectSeq(items, LAMBDA item : item.id # action.id)
    [] action.type = "UPDATE_QUANTITY" ->
         DropEmpty([i \in 1..Len(items) |->
                      IF items[i].id = action.id
                        THEN [items[i] EXCEPT !.quantity = Max0(action.quantity)]
                        ELSE items[i]])
    [] action.type = "CLEAR_CART" -> <<>>
    [] OTHER -> items

\* An action is dispatched to cartReducer.
Dispatch(action) ==
  /\ cart' = CartReducer(cart, action)
  /\ cartLast' = action
  /\ UNCHANGED <<now, todos, otherThanReducers>>

\* The Add to Cart button of a product.
AddItem(id) ==
  /\ \A i \in 1..Len(cart) : cart[i].id = id => cart[i].quantity < MaxQuantity
  /\ Dispatch([type |-> "ADD_ITEM", id |-> id, quantity |-> 0])

\* The Remove button of an item shown.
RemoveItem(i) ==
  /\ i \in 1..Len(cart)
  /\ Dispatch([type |-> "REMOVE_ITEM", id |-> cart[i].id, quantity |-> 0])

\* The quantity input of an item shown: parseInt(e.target.value) || 0.
UpdateQuantity(i, text) ==
  /\ i \in 1..Len(cart)
  /\ Dispatch([type |-> "UPDATE_QUANTITY", id |-> cart[i].id,
               quantity |-> ParseQuantity(text)])

\* The Clear Cart button.
ClearCart ==
  /\ cartLast' = [type |-> "CLEAR_CART", id |-> 0, quantity |-> 0]
  /\ cart' = CartReducer(cart, cartLast')
  /\ UNCHANGED <<now, todos, otherThanReducers>>

NextK ==
  \/ \E id \in Products : AddItem(id)
  \/ \E i \in 1..Cardinality(Products) : RemoveItem(i)
  \/ \E i \in 1..Cardinality(Products), text \in QuantityTexts : UpdateQuantity(i, text)
  \/ ClearCart

----------------------------------------------------------------------------
(* The Polling & Real-time page: RealTimeCounter.  Its state pair          *)
(* [interval, setInterval] shadows the host's setInterval inside the       *)
(* component, so the effect calls the state setter, not the host: the      *)
(* callback it passes is taken as an updater of `interval`.                *)

\* How often React runs an updater passed to a state setter: once, or twice
\* where it double-invokes updaters.
UpdaterRuns == {1, 2}

\* The state `interval` after setInterval(() => { setCounter(...) }, interval):
\* the updater returns nothing.
IntervalAfterEffect == Undefined

\* The effect on [isRunning, interval] runs with isRunning true: the updater
\* runs (k times) and counts; it leaves `interval` undefined, and if that
\* changed `interval` the effect runs once more (the updater runs j times).
\* What the state setter returns is undefined, so intervalId stays unset and
\* the cleanup clears nothing.  The counter afterwards:
CounterAfterEffect(from, k, j) ==
  IF from # IntervalAfterEffect THEN counter + k + j ELSE counter + k

\* The Start / Stop button: setIsRunning(!isRunning), then the effect.
ToggleRunning(k, j) ==
  /\ activeSection = "polling"
  /\ counter < MaxCounter
  /\ isRunning' = ~isRunning
  /\ IF ~isRunning
       THEN /\ counter' = CounterAfterEffect(rtInterval, k, j)
            /\ rtInterval' = IntervalAfterEffect
       ELSE UNCHANGED <<counter, rtInterval>>
  /\ UNCHANGED <<now, activeSection, hostVars, intervals, cpVars, otherPages>>

\* handleIntervalChange: setInterval(parseInt(e.target.value)), the state
\* setter; the effect re-runs if the value changed.
SelectInterval(v, k, j) ==
  /\ activeSection = "polling"
  /\ counter < MaxCounter
  /\ v # rtInterval
  /\ IF isRunning
       THEN /\ counter' = CounterAfterEffect(v, k, j)
            /\ rtInterval' = IntervalAfterEffect
       ELSE /\ rtInterval' = v
            /\ UNCHANGED counter
  /\ UNCHANGED <<now, activeSection, hostVars, intervals, isRunning, cpVars, otherPages>>

\* The Reset button: setCounter(0).
ResetCounter ==
  /\ activeSection = "polling"
  /\ counter # 0
  /\ counter' = 0
  /\ UNCHANGED <<now, activeSection, hostVars, intervals, isRunning, rtInterval,
                 cpVars, otherPages>>

TickR == Tick(RealTimeHorizon)

NextR ==
  \/ TickR
  \/ \E s \in PollingPages : NavigateL(s)
  \/ \E k, j \in UpdaterRuns : ToggleRunning(k, j)
  \/ \E v \in IntervalOptions, k, j \in UpdaterRuns : SelectInterval(v, k, j)
  \/ ResetCounter

----------------------------------------------------------------------------
(* IntervalCounter and MultipleTimers.  The host runs the callbacks of     *)
(* timeouts and intervals in the order in which they are due.              *)

\* What IntervalCounter and MultipleTimers leave alone.
otherTimerVars == <<innerWidth, debounceVars, throttleVars, buttonVars, pipeVars,
                    twVars, teardown, farVars>>

CanStart(n) == nextId + n - 1 <= MaxPageIds

\* The Start / Stop button of IntervalCounter: setIsRunning(!isRunning); the
\* effect on [isRunning] re-runs: cleanup, then setInterval(..., 1000) if running.
ToggleCounter ==
  /\ activeSection = "timeoutInterval"
  /\ icRunning' = ~icRunning
  /\ IF ~icRunning
       THEN /\ CanStart(1)
            /\ intervals' = SetInterval(IntervalCleanup(intervals, icInterval),
                                        nextId, "counter", CounterPeriod)
            /\ icInterval' = nextId
            /\ nextId' = nextId + 1
       ELSE /\ intervals' = IntervalCleanup(intervals, icInterval)
            /\ icInterval' = NoHandle
            /\ UNCHANGED nextId
  /\ UNCHANGED <<now, activeSection, timers, icCount, mtVars, otherTimerVars>>

\* The interval of IntervalCounter ticks: setCount(prev => prev + 1).
FireCounter ==
  \E t \in DueI("counter") :
    /\ IsNext(t.due)
    /\ intervals' = Rearm(intervals, t)
    /\ icCount' = icCount + 1
    /\ UNCHANGED <<now, activeSection, hostVars, icRunning, icInterval, mtVars,
                   otherTimerVars>>

\* The Reset button of IntervalCounter: setCount(0).
ResetCount ==
  /\ activeSection = "timeoutInterval"
  /\ icCount # 0
  /\ icCount' = 0
  /\ UNCHANGED <<now, activeSection, hostVars, intervals, icRunning, icInterval,
                 mtVars, otherTimerVars>>

\* The effect body of MultipleTimers: timer1, timer2, timer3.
MultipleEffect(T, id) ==
  SetTimeout(
    SetTimeout(
      SetTimeout(T, id, "multi", MultipleDelays[1], TimerMessages[1]),
      id + 1, "multi", MultipleDelays[2], TimerMessages[2]),
    id + 2, "multi", MultipleDelays[3], TimerMessages[3])

\* The Start / Stop button of MultipleTimers: setIsActive(!isActive); the
\* effect on [isActive] re-runs: cleanup, then the three timeouts if active.
ToggleTimers ==
  /\ activeSection = "timeoutInterval"
  /\ isActive' = ~isActive
  /\ mtRun' = <<>>
  /\ IF ~isActive
       THEN /\ CanStart(3)
            /\ timers' = MultipleEffect(MultipleCleanup(timers, mtTimers), nextId)
            /\ mtTimers' = <<nextId, nextId + 1, nextId + 2>>
            /\ nextId' = nextId + 3
       ELSE /\ timers' = MultipleCleanup(timers, mtTimers)
            /\ mtTimers' = <<>>
            /\ UNCHANGED nextId
  /\ UNCHANGED <<now, activeSection, intervals, messages, icVars, otherTimerVars>>

\* A timeout of MultipleTimers fires: setMessages(prev => [...prev, message]).
FireMultiple ==
  \E t \in Due("multi") :
    /\ IsNext(t.due)
    /\ timers' = timers \ {t}
    /\ messages' = Append(messages, t.val)
    /\ mtRun' = Append(mtRun, t.val)
    /\ UNCHANGED <<now, activeSection, nextId, intervals, isActive, mtTimers,
                   icVars, otherTimerVars>>

\* The Clear Messages button: setMessages([]).
ClearMessages ==
  /\ activeSection = "timeoutInterval"
  /\ messages # <<>>
  /\ messages' = <<>>
  /\ UNCHANGED <<now, activeSection, hostVars, intervals, isActive, mtTimers, mtRun,
                 icVars, otherTimerVars>>

\* Time passes, in the coarser steps of this page.
TickM ==
  /\ now < TimersHorizon
  /\ now' = now + TimerStepMs
  /\ UNCHANGED <<activeSection, innerWidth, hostVars, debounceVars,
                 throttleVars, buttonVars, pipeVars, laterVars, teardown>>

\* The pages the user switches between here.
TimerPages == {"useState", "timeoutInterval"}

NextM ==
  \/ TickM
  \/ \E s \in TimerPages : NavigateD(s)
  \/ FireDelayed
  \/ ToggleCounter
  \/ FireCounter
  \/ ResetCount
  \/ ToggleTimers
  \/ FireMultiple
  \/ ClearMessages

----------------------------------------------------------------------------
(* The debouncers *)

Init ==
  /\ now = 0
  /\ activeSection = "useState"
  /\ timers = {}
  /\ nextId = 1
  /\ searchTerm = ""
  /\ debouncedSearchTerm = ""
  /\ searchHandler = NoHandle
  /\ daInput = ""
  /\ daDebouncedInput = ""
  /\ daTimer = NoHandle
  /\ innerWidth \in Widths
  /\ windowSize = NoWidth
  /\ timeoutId = NoHandle
  /\ hist = [d \in Debouncers |-> NoHist]
  /\ pendingAtUnmount = {}
  /\ ranUnmounted = FALSE
  /\ scrollCount = 0
  /\ throttledCount = 0
  /\ scrollLastRun = 0
  /\ resizeCount = 0
  /\ shownWidth = NoWidth
  /\ resizeLastRun = 0
  /\ thr = [h \in Throttlers |-> NoCalls]
  /\ clickCount = 0
  /\ debouncedCount = 0
  /\ btn = NoClicks
  /\ input = ""
  /\ debouncedInput = ""
  /\ inputHandler = NoHandle
  /\ apiCalls = 0
  /\ apiLastRun = 0
  /\ apiLog = NoCapture
  /\ pipe = NoRequests
  /\ intervals = {}
  /\ icCount = 0
  /\ icRunning = FALSE
  /\ icInterval = NoHandle
  /\ messages = <<>>
  /\ isActive = FALSE
  /\ mtTimers = <<>>
  /\ mtRun = <<>>
  /\ twCount = 0
  /\ timerRef = NoHandle
  /\ tw = NoOps
  /\ teardown = NoTeardown
  /\ cfg = NoHook
  /\ counter = 0
  /\ isRunning = FALSE
  /\ rtInterval = DefaultInterval
  /\ isPolling = FALSE
  /\ cpData = 0
  /\ threshold = DefaultThreshold
  /\ cpInterval = NoHandle
  /\ todos = <<>>
  /\ cart = <<>>
  /\ cartLast = NoAction
  /\ localStorage = [key \in Keys |-> NoItem]
  /\ storedValue = [key \in Keys |-> InitialValue[key]]
  /\ ls = NotSet
  /\ boundaries = [i \in Examples |-> Unmounted]
  /\ shouldThrow = FALSE
  /\ eb = [i \in Examples |-> NotObserved]

NextD ==
  \/ TickD
  \/ \E s \in Sections : NavigateD(s)
  \/ \E v \in Values : TypeSearch(v)
  \/ FireSearch
  \/ \E v \in Values : TypeDelayed(v)
  \/ FireDelayed
  \/ \E w \in Widths : Resize(w)
  \/ FireWindowSize

SpecDebounce == Init /\ [][NextD]_vars

SpecThrottle == Init /\ [][NextT]_vars

SpecButton == Init /\ [][NextB]_vars

SpecPipeline == Init /\ [][NextP]_vars

\* The events of DebouncedSearch alone.
NextS ==
  \/ TickD
  \/ \E s \in Sections : NavigateD(s)
  \/ \E v \in Values : TypeSearch(v)
  \/ FireSearch

\* Time passes and the host runs every timeout that is due.
FairS ==
  /\ WF_vars(TickD)
  /\ WF_vars(FireSearch)

SpecDebounceFair == Init /\ [][NextS]_vars /\ FairS

\* The teardowns: stopTimer of TimerWithRef, the cleanups of useDebounce (in
\* DebouncedSearch) and of useWindowSize, and their second runs.
NextX ==
  \/ TickD
  \/ \E s \in Sections : NavigateD(s)
  \/ \E v \in Values : TypeSearch(v)
  \/ FireSearch
  \/ \E w \in Widths : Resize(w)
  \/ FireWindowSize
  \/ \E d \in {"search", "winsize"} : CleanupAgain(d)
  \/ StartTimer
  \/ StopTimer
  \/ ResetTimer
  \/ FireTimerRef

SpecTeardown == Init /\ [][NextX]_vars

SpecConfig == Init /\ [][NextC]_vars

SpecInstances == Init /\ [][NextI]_vars

SpecPolling == Init /\ [][NextL]_vars

SpecTimers == Init /\ [][NextM]_vars

SpecRealTime == Init /\ [][NextR]_vars

SpecTodo == Init /\ [][NextU]_vars

SpecCart == Init /\ [][NextK]_vars

SpecStorage == Init /\ [][NextG]_vars

SpecBoundary == Init /\ [][NextE]_vars

----------------------------------------------------------------------------
(* Properties of the throttlers *)

\* A step in which the throttled function of h is called.
Called(h) == thr'[h].calls = thr[h].calls + 1

\* The executions of h since its current window opened.
WindowExecs(h) == thr[h].execs - thr[h].winBase

WindowClosed(h) == now > thr[h].lastExecAt + ThrottleOf(h)

\* C1 as stated (throttle leading edge): the first call of a throttled
\* function after the hook is instantiated executes the callback, however
\* little time has passed since; so does the first call made once a full delay
\* has elapsed since the last execution.
C1_LeadingEdge ==
  [][\A h \in Throttlers :
       (/\ Called(h)
        /\ \/ thr[h].calls = 0
           \/ thr[h].execs > 0 /\ now - thr[h].lastExecAt >= ThrottleOf(h))
       => thr'[h].execs = thr[h].execs + 1]_vars

\* C2 as stated (throttle trailing coalescing): a burst of several calls
\* inside one window has produced exactly two executions once the window has
\* closed, the leading one and a trailing one at the window boundary.
C2_TwoExecutions ==
  \A h \in Throttlers :
    (thr[h].winCalls >= 2 /\ WindowClosed(h)) => WindowExecs(h) = 2

\* C2 (amended: leading edge only): of the calls that arrive inside the window
\* an execution opened, that execution is the only one; the further calls are
\* dropped and nothing is executed at the window boundary, so the burst has
\* produced exactly one execution, also after the window has closed.  The
\* counters the components show count exactly the executions.
C2_LeadingOnly ==
  /\ \A h \in Throttlers : thr[h].winCalls >= 1 => WindowExecs(h) = 1
  /\ activeSection = "debounceThrottle" =>
       /\ throttledCount = thr["scroll"].execs
       /\ resizeCount = thr["resize"].execs
       /\ scrollCount = thr["scroll"].calls

\* Three resize events inside one window, the window closed since, and one
\* execution.
C2_Witness ==
  /\ thr["resize"].winCalls >= 3
  /\ WindowClosed("resize")
  /\ resizeCount = 1

\* C3 (throttle window enforcement): two consecutive executions of the
\* callback of a useThrottle instance are at least its delay apart, whatever
\* the calls and the re-renders in between.
C3_WindowEnforcement ==
  \A h \in Throttlers :
    thr[h].prevExecAt >= 0 =>
      thr[h].lastExecAt - thr[h].prevExecAt >= ThrottleOf(h)

\* ThrottledScroll has executed twice, with a dropped call (and the re-render
\* it causes) in between.
C3_Witness ==
  /\ thr["scroll"].prevExecAt >= 0
  /\ throttledCount = 2
  /\ scrollCount = 3

\* C13 (the throttle boundary is inclusive): a call of a throttled function
\* made exactly the delay after its previous execution is executed, so of calls
\* spaced exactly the delay apart none that follows an execution is dropped.
C13_InclusiveBoundary ==
  [][\A h \in Throttlers :
       (/\ Called(h)
        /\ thr[h].execs > 0
        /\ now - thr[h].lastExecAt = ThrottleOf(h))
       => /\ thr'[h].execs = thr[h].execs + 1
          /\ thr'[h].lastExecAt = now]_vars

\* ThrottledResize has executed twice, the second time exactly its delay
\* after the first, and every call since the first execution was executed.
C13_Witness ==
  /\ thr["resize"].prevExecAt >= 0
  /\ thr["resize"].lastExecAt - thr["resize"].prevExecAt = ResizeThrottle
  /\ resizeCount = 2
  /\ thr["resize"].calls = 2

----------------------------------------------------------------------------
(* Properties of DebouncedButton and of CustomHookExample *)

\* C9 as stated (debounced button clicks): once the timeouts of the clicks
\* have run, debouncedCount has increased by one per burst of clicks, each
\* click of a burst coming less than the delay after the previous one.
C9_OnePerBurst ==
  (activeSection = "debounceThrottle" /\ Pending("button") = {})
    => debouncedCount = btn.bursts

\* C10 as stated (the latest request is not lost): when a new debounced input
\* has requested an API call inside the window an earlier call opened, then
\* once that window has closed a call has been executed for the current
\* debounced input.
C10_LatestNotLost ==
  (/\ activeSection = "debounceThrottle"
   /\ pipe.dropped
   /\ now > apiLastRun + ApiThrottle)
    => apiLog = debouncedInput

\* C10 (amended: a request inside the window is dropped): an API call is
\* executed only in a render whose debounced input is not empty and that
\* happens at least the throttle delay after the last execution (after
\* instantiation, for the first one); it names the debounced input of that
\* render.  The passage of time executes nothing: a request made inside the
\* window is not carried out when the window closes.
C10_DroppedInWindow ==
  [][(activeSection = "debounceThrottle" /\ activeSection' = activeSection
      /\ apiCalls' # apiCalls)
     => /\ apiCalls' = apiCalls + 1
        /\ now' = now
        /\ now - apiLastRun >= ApiThrottle
        /\ apiLastRun' = now
        /\ debouncedInput' # ""
        /\ apiLog' = debouncedInput']_vars

\* A new debounced input was dropped inside the window of the one call made;
\* the window has closed and the last call names an older input.
C10_Witness ==
  /\ activeSection = "debounceThrottle"
  /\ pipe.dropped
  /\ now > apiLastRun + ApiThrottle
  /\ apiCalls = 1
  /\ apiLog # debouncedInput

----------------------------------------------------------------------------
(* Properties of the debouncers *)

Mounted(d) == activeSection = SectionOf(d)

\* C4 (debounce coalescing): within a burst of input changes, each less than
\* the delay after the previous one, the debounced output of useDebounce and of
\* DelayedActions changes at most once, and that change comes no earlier than
\* the delay after the last input change of the burst.
C4_Coalescing ==
  \A d \in {"search", "delayed"} :
    /\ hist[d].burstOut <= 1
    /\ hist[d].burstOut = 1 => hist[d].outAt >= hist[d].changedAt + DelayOf(d)

\* A burst of two or more input changes has produced its one output change.
C4_Witness ==
  /\ hist["search"].burstLen >= 2
  /\ hist["search"].burstOut = 1
  /\ debouncedSearchTerm = searchTerm

\* A step in which a timer callback of debouncer d runs while d is mounted:
\* a timeout of d leaves the table and no handler or navigation does it.
Fired(d) ==
  /\ Mounted(d)
  /\ Pending(d)' # Pending(d)
  /\ nextId' = nextId
  /\ activeSection' = activeSection

\* C5 (no stale emission): whenever the timer callback of useDebounce or of
\* DelayedActions runs, the output it leaves is the most recent input, never a
\* value that a newer input has superseded; the output changes in no other step.
C5_NoStaleEmission ==
  [][/\ Fired("search") => debouncedSearchTerm' = searchTerm
     /\ Fired("delayed") => daDebouncedInput' = daInput
     /\ (activeSection' = activeSection /\ debouncedSearchTerm' # debouncedSearchTerm)
          => Fired("search")
     /\ (activeSection' = activeSection /\ daDebouncedInput' # daDebouncedInput)
          => Fired("delayed")]_vars

\* DelayedActions has emitted the second input of a burst, the first one
\* having been superseded while its timeout was pending.
C5_Witness ==
  /\ hist["delayed"].burstLen >= 2
  /\ hist["delayed"].replaced
  /\ hist["delayed"].sinceOut = 1
  /\ daDebouncedInput = daInput

Settled(d) == Mounted(d) /\ hist[d].changed /\ Pending(d) = {}

\* C6 as stated (debounce settling): once the input of useDebounce has changed
\* and its timeout has run, the output is the input and has changed exactly
\* once since that input change.
C6_ChangesExactlyOnce ==
  Settled("search") =>
    /\ debouncedSearchTerm = searchTerm
    /\ hist["search"].sinceOut = 1

\* C6 (debounce settling, amended): an input x of useDebounce that stays
\* unchanged while the component stays mounted eventually is the output; once
\* its timeout has run the output is x and has changed once since the input
\* change if it differed from x then, and not at all if it already was x.
C6_Settling ==
  /\ \A x \in Values :
       (Mounted("search") /\ searchTerm = x)
         ~> (debouncedSearchTerm = x \/ searchTerm # x \/ ~Mounted("search"))
  /\ [](Settled("search") =>
          /\ debouncedSearchTerm = searchTerm
          /\ hist["search"].sinceOut =
               (IF hist["search"].outBefore = searchTerm THEN 0 ELSE 1))

\* The input has settled on a new value and the output has followed it.
C6_Witness ==
  /\ Settled("search")
  /\ searchTerm = "a"
  /\ debouncedSearchTerm = "a"
  /\ hist["search"].sinceOut = 1

\* C7 (one pending timer): no debouncer (useDebounce, DelayedActions,
\* useWindowSize) ever has more than one timeout outstanding.
C7_OnePendingTimer ==
  \A d \in Debouncers : Cardinality(Pending(d)) <= 1

\* A resize arrived while the timeout of the previous resize was pending, and
\* one timeout is pending now.
C7_Witness ==
  /\ hist["winsize"].replaced
  /\ Cardinality(Pending("winsize")) = 1
  /\ timeoutId > 1

\* C8 (teardown safety): a debouncer whose component is unmounted has no
\* timeout pending, and no timer callback ever runs for an unmounted component.
C8_TeardownSafety ==
  /\ \A d \in Debouncers : Mounted(d) \/ Pending(d) = {}
  /\ ~ranUnmounted

\* The page of useWindowSize was left while its timeout was pending, and no
\* timeout is left.
C8_Witness ==
  /\ "winsize" \in pendingAtUnmount
  /\ activeSection # "customHooks"
  /\ timers = {}

----------------------------------------------------------------------------
(* Properties of the hook instances side by side *)

\* A step of the useDebounce instance of owner d other than mount and unmount:
\* its input changes (cleanup and effect) or its timeout fires.
StepOf(d) ==
  /\ activeSection' = activeSection
  /\ Pending(d)' # Pending(d)

\* C14 (scheduler instances are independent): an input change of one
\* useDebounce instance (the cleanup of its previous effect and its new
\* timeout) and the firing of its timeout leave the other instance's timeout,
\* handle and output as they are, and leave the last-run times of the
\* useThrottle instances of ThrottledScroll and ThrottledResize untouched; a
\* call of one throttled function leaves every timeout and the last-run time
\* and counters of the other throttled functions as they are.
C14_Independence ==
  [][/\ StepOf("search")
          => UNCHANGED <<input, debouncedInput, inputHandler, apiLastRun,
                         scrollLastRun, resizeLastRun>>
             /\ Pending("input")' = Pending("input")
     /\ StepOf("input")
          => UNCHANGED <<searchTerm, debouncedSearchTerm, searchHandler,
                         scrollLastRun, resizeLastRun>>
             /\ Pending("search")' = Pending("search")
     /\ Called("scroll")
          => UNCHANGED <<timers, resizeLastRun, resizeCount, apiLastRun, apiCalls,
                         debouncedSearchTerm, debouncedInput>>
     /\ Called("resize")
          => UNCHANGED <<timers, scrollLastRun, throttledCount, apiLastRun, apiCalls,
                         debouncedSearchTerm, debouncedInput>>]_vars

\* Both useDebounce instances have a timeout pending, the one of
\* CustomHookExample set after a newer input replaced its first one, the
\* search input changed since, and ThrottledResize has executed a call.
C14_Witness ==
  /\ Pending("search") # {}
  /\ Pending("input") # {}
  /\ searchTerm = "a"
  /\ input = "b"
  /\ searchHandler > inputHandler
  /\ inputHandler > 2
  /\ resizeCount = 1
  /\ scrollLastRun # resizeLastRun

----------------------------------------------------------------------------
(* Properties of IntervalCounter and MultipleTimers *)

\* C17 (stopping cancels every scheduled timer): while MultipleTimers is not
\* active none of its timeouts is pending, while IntervalCounter is not running
\* its interval is not active, and neither is after the page is unmounted; a
\* message is appended only while active and the count increases only while
\* running; the messages appended within one activation are Timer 1, Timer 2,
\* Timer 3 in this order, each at most once.
C17_StopCancelsTimers ==
  /\ [](/\ ~isActive => Pending("multi") = {}
        /\ ~icRunning => Active("counter") = {}
        /\ activeSection # "timeoutInterval"
             => (Pending("multi") = {} /\ Active("counter") = {})
        /\ Len(mtRun) <= Len(TimerMessages)
        /\ \A i \in 1..Len(mtRun) : mtRun[i] = TimerMessages[i])
  /\ [][(activeSection' = activeSection /\ Len(messages') > Len(messages))
          => isActive]_vars
  /\ [][(activeSection' = activeSection /\ icCount' > icCount)
          => icRunning]_vars

\* An activation of MultipleTimers that followed a stopped one has appended
\* its three messages, and IntervalCounter was stopped after it had counted.
C17_Witness ==
  /\ Len(mtRun) = 3
  /\ mtTimers[1] > 3
  /\ isActive
  /\ icCount >= 1
  /\ ~icRunning
  /\ intervals = {}

----------------------------------------------------------------------------
(* Properties of the polling page *)

\* C16 (conditional polling stops at the threshold): with the threshold not
\* changed during a round, ConditionalPolling never holds more items than the
\* threshold; when it holds as many, isPolling is false and no polling interval
\* is active; an interval is active only while polling below the threshold.
C16_StopsAtThreshold ==
  activeSection = "polling" =>
    /\ cpData <= threshold
    /\ cpData = threshold => (~isPolling /\ Active("poll") = {})
    /\ Active("poll") # {} => (isPolling /\ cpData < threshold)
    /\ Cardinality(Active("poll")) <= 1

\* A round with threshold 2 has collected its two items and has stopped.
C16_Witness ==
  /\ activeSection = "polling"
  /\ threshold = 2
  /\ cpData = 2
  /\ ~isPolling
  /\ intervals = {}

\* C18 as stated (the real-time counter ticks while running): while
\* isRunning is true a periodic timer with the selected interval is active, and
\* the interval value is one the selector offers, changed by the selector only.
C18_TicksWhileRunning ==
  activeSection = "polling" =>
    /\ isRunning => \E t \in intervals : t.every = rtInterval
    /\ rtInterval \in IntervalOptions

----------------------------------------------------------------------------
(* Properties of the storage hook *)

\* C21 (localStorage round trip): once the page is refreshed, the instance of
\* every key whose last setValue(v) completed without error holds v again, not
\* its initial value -- for the falsy 0, '' and false as for the other values.
C21_RoundTrip ==
  ls.refreshed =>
    \A key \in Keys : ls.set[key].done => storedValue[key] = ls.set[key].value

\* After a refresh the theme is 0, the name is false and the count is '': each
\* a falsy value that was set, none the initial value of its key.
C21_Witness ==
  /\ ls.refreshed
  /\ ls.set["theme"].done /\ storedValue["theme"] = Num(0)
  /\ ls.set["userName"].done /\ storedValue["userName"] = Bool(FALSE)
  /\ ls.set["count"].done /\ storedValue["count"] = Str(<<>>)

----------------------------------------------------------------------------
(* Properties of the error boundary *)

\* The boundary of example i is in the state the constructor and handleReset
\* set, and shows its children.
ShowsChildren(b) == ~b.hasError /\ b.error = NoError /\ b.shows = "children"

\* C22 (error boundary fallback and reset): a mounted boundary shows the
\* fallback exactly when hasError is true; it has hasError with the error its
\* child threw stored, and no error stored otherwise; onError was called once
\* per error caught when the boundary was given one, never otherwise.  A Try
\* Again renders the child again, and leaves the state at {hasError: false,
\* error: null} with the children shown unless the child throws again on that
\* render.
C22_FallbackAndReset ==
  /\ [](\A i \in Examples :
          boundaries[i].shows # "unmounted" =>
            /\ boundaries[i].shows = "fallback" <=> boundaries[i].hasError
            /\ boundaries[i].hasError => boundaries[i].error = ErrorOf(i)
            /\ ~boundaries[i].hasError => boundaries[i].error = NoError
            /\ boundaries[i].hasError <=> eb[i].caught > eb[i].resets
            /\ eb[i].logged = IF HasOnError(i) THEN eb[i].caught ELSE 0)
  /\ [][\A i \in Examples :
          eb'[i].resets = eb[i].resets + 1 =>
            /\ eb'[i].renders = eb[i].renders + 1
            /\ ~ChildThrows(i, shouldThrow') => ShowsChildren(boundaries'[i])]_vars

\* ErrorThrowerWithReset threw after its button was clicked, Try Again brought
\* its button back, and the boundary with an onError has logged two errors: the
\* one of the mount and the one after its Try Again.
C22_Witness ==
  /\ eb[2].caught = 1 /\ eb[2].resets = 1 /\ ShowsChildren(boundaries[2])
  /\ eb[3].resets = 1 /\ eb[3].logged = 2 /\ boundaries[3].shows = "fallback"
  /\ boundaries[1].hasError /\ boundaries[1].error = ErrorOf(1)

----------------------------------------------------------------------------
(* Properties of the reducers *)

\* C19 as stated (todo ids are unique): the todos of the state have pairwise
\* distinct ids, so a TOGGLE_TODO or DELETE_TODO with an id affects one todo.
C19_UniqueTodoIds ==
  \A i, j \in 1..Len(todos) : i # j => todos[i].id # todos[j].id

\* C20 (cart well-formedness): every item of the cart has an integer
\* quantity >= 1 and no two items have the same id.
C20_CartWellFormed ==
  /\ \A i \in 1..Len(cart) : cart[i].quantity \in Nat /\ cart[i].quantity >= 1
  /\ \A i, j \in 1..Len(cart) : i # j => cart[i].id # cart[j].id

\* An UPDATE_QUANTITY to a value <= 0 has removed its item, and the product
\* that was added a second time is in the cart once, with quantity 2.
C20_Witness ==
  /\ cartLast.type = "UPDATE_QUANTITY"
  /\ cartLast.quantity <= 0
  /\ ~HasItem(cart, cartLast.id)
  /\ Len(cart) = 1
  /\ cart[1].quantity = 2

----------------------------------------------------------------------------
(* Properties of the hooks with a free delay *)

\* C12 as stated (a negative delay is rejected): no instance of useDebounce or
\* useThrottle exists with a delay < 0; for such a delay no timeout is
\* scheduled and no callback is executed.
C12_NegativeDelayRejected ==
  cfg.delay < 0 =>
    /\ cfg.kind = "none"
    /\ Pending("hook") = {}
    /\ cfg.runs = 0

----------------------------------------------------------------------------
(* Properties of the teardowns *)

\* C11 (idempotent teardown): a stopTimer of TimerWithRef that directly
\* follows a stopTimer changes nothing, and stopTimer calls clearInterval at
\* most once per interval; a second run of a cleanup of useDebounce or of
\* useWindowSize that has already run cancels no timeout and changes no state.
C11_IdempotentTeardown ==
  /\ [][(tw.lastOp = "stop" /\ tw'.stops = tw.stops + 1)
          => /\ UNCHANGED <<intervals, timers, nextId, timerRef, twCount>>
             /\ tw'.cancels = tw.cancels]_vars
  /\ [][teardown'.reruns = teardown.reruns + 1
          => UNCHANGED <<timers, intervals, debounceVars, twVars>>]_vars
  /\ [](tw.cancels <= 1)

\* C15 (TimerWithRef keeps a single interval): at most one interval of
\* TimerWithRef is active and it is the one timerRef.current names;
\* timerRef.current is non-null exactly when an interval is active; a Start
\* while one is active creates none; after Stop, after Reset and after unmount
\* none is active.
C15_SingleInterval ==
  /\ [](/\ Cardinality(Active("timerRef")) <= 1
        /\ \A t \in Active("timerRef") : t.id = timerRef
        /\ (timerRef # NoHandle) <=> (Active("timerRef") # {})
        /\ tw.lastOp \in {"stop", "reset"} => Active("timerRef") = {}
        /\ activeSection # "timeoutInterval" => Active("timerRef") = {})
  /\ [][(tw' # tw /\ tw'.lastOp = "ignored")
          => UNCHANGED <<intervals, timerRef, nextId>>]_vars

\* Start was clicked while the interval was active and had ticked; that one
\* interval is still the only one.
C15_Witness ==
  /\ tw.lastOp = "ignored"
  /\ twCount >= 1
  /\ Cardinality(Active("timerRef")) = 1
  /\ tw.stops >= 1

\* stopTimer has run twice in a row after the interval was started, and the
\* cleanup of useDebounce has run a second time while a newer timeout of
\* another mount was pending.
C11_Witness ==
  /\ tw.lastOp = "stop"
  /\ tw.stops >= 2
  /\ tw.cancels = 1
  /\ teardown.reruns >= 1
  /\ teardown.owner = "search"
  /\ teardown.handle # NoHandle
  /\ timers # {}

====
